---- MODULE Spec2Model ----
(***************************************************************************)
(* One More Run (the Inspection Game): the Inspector decision engine       *)
(* (InspectorAI), the payoff calculator and the two game loops             *)
(* (InspectionGame.play_round of the CLI, the /api/move handler and        *)
(* WebGameSession.play_round of the web application).                      *)
(*                                                                         *)
(* Numbers.  trust_level is a Python float.  It is kept as the hundredth   *)
(* it is nearest to (0.5 is 50; every step 0.1, 0.05, 0.02 and every       *)
(* threshold 0.6, 0.65, 0.7, 0.75 is a whole number of hundredths) and     *)
(* trust_err, the sign of its rounding error against the float literal of  *)
(* that hundredth: 0.5 + 0.05 + 0.05 is 0.6000000000000001 > 0.6.  A sum   *)
(* that lands on a threshold takes any of the three signs; elsewhere the   *)
(* error decides nothing and is kept 0.  Probabilities and the three       *)
(* traits are kept in ten-thousandths (0.15 is 1500), and a value returned *)
(* by rng.random() in hundredths (0.05 is 5).  A frequency is the exact    *)
(* fraction [num, den] the code divides.                                   *)
(*                                                                         *)
(* Randomness.  random.Random(seed) is a fixed stream of values decided by *)
(* the seed.  The rng record holds the position in that stream and, when   *)
(* two instances of one seed are compared, the part of the stream already  *)
(* produced (tape); a value not yet produced is any member of rng.free.    *)
(* Every operation that draws returns the SET of its possible outcomes.    *)
(***************************************************************************)
EXTENDS Integers, Sequences, FiniteSets, TLC

VARIABLES game, game2, tape, inputs, script, budget, lastFree, obs, obs2, reply, pure

vars == <<game, game2, tape, inputs, script, budget, lastFree, obs, obs2, reply, pure>>

(***************************************************************************)
(* GAME CONFIGURATION (inspection_game.py 25-54)                           *)
(***************************************************************************)
ROUNDS_PER_GAME == 20
EARLY_GAME_END == 6
MID_GAME_END == 14

PAYOFF_SMUGGLE_INSPECT == -5
PAYOFF_SMUGGLE_DONT == 10
PAYOFF_LAYLOW_INSPECT == 0
PAYOFF_LAYLOW_DONT == 1
BRIBE_COST == 3

ACT_SMUGGLE == 1
ACT_LAY_LOW == 2
ACT_BRIBE == 3
ACT_SIGNAL_TRUCE == 4

ACT_INSPECT == 1
ACT_DONT_INSPECT == 2
ACT_ACCEPT_BRIBE == 3
ACT_SET_TRAP == 4

\* Python's None where an action is expected (last_player_action, pattern_action).
None == 0

SmugglerActions == {ACT_SMUGGLE, ACT_LAY_LOW, ACT_BRIBE, ACT_SIGNAL_TRUCE}
InspectorActions == {ACT_INSPECT, ACT_DONT_INSPECT, ACT_ACCEPT_BRIBE, ACT_SET_TRAP}

\* The grant of handle_bribe: "This turn (1) + Next Turn (1) = 2".
IMMUNITY_GRANT == 2
\* The cap of the /api/move handler: amount = max(1, min(amount, 5)).
MIN_AMOUNT == 1
MAX_AMOUNT == 5

(***************************************************************************)
(* Bounds of the exploration.                                              *)
(***************************************************************************)
\* Rounds of one game in which the smuggler and the generator are free; in
\* every other round both follow the script chosen with the game.
MaxFree == 1
\* Rounds each of the two same-seed instances plays in PairSpec.
MaxPairRounds == 1
\* The longest smuggler history the pattern detector is applied to.
MaxHistory == 5
\* The highest consecutive_passive_rounds an engine function is applied to.
MaxPassive == 2

\* The values rng.random() is sampled at, in hundredths.
Draws == {5, 50, 95}
PairDraws == {5, 95}
\* The amounts a client posts to /api/move in a free round.
RawAmounts == {-3, 0, 5, 9}

(***************************************************************************)
(* Payoff Calculator                                                       *)
(***************************************************************************)
calculate_payoff_unscaled(player_action, inspector_action, bribe_accepted, amount) ==
    LET base == IF player_action = ACT_BRIBE THEN -BRIBE_COST ELSE 0
        effective_player ==
            IF player_action \in {ACT_BRIBE, ACT_SIGNAL_TRUCE} THEN ACT_LAY_LOW
            ELSE player_action
    IN  IF effective_player = ACT_SMUGGLE
        THEN IF inspector_action = ACT_INSPECT
             THEN base + PAYOFF_SMUGGLE_INSPECT
             ELSE base + PAYOFF_SMUGGLE_DONT
        ELSE IF inspector_action = ACT_INSPECT
             THEN base + PAYOFF_LAYLOW_INSPECT
             ELSE base + PAYOFF_LAYLOW_DONT

calculate_payoff_scaled(player_action, inspector_action, bribe_accepted, amount) ==
    LET base == IF player_action = ACT_BRIBE THEN -BRIBE_COST ELSE 0
        effective_player ==
            IF player_action \in {ACT_BRIBE, ACT_SIGNAL_TRUCE} THEN ACT_LAY_LOW
            ELSE player_action
    IN  IF inspector_action = ACT_INSPECT
        THEN base + (IF effective_player = ACT_SMUGGLE THEN PAYOFF_SMUGGLE_INSPECT
                     ELSE PAYOFF_LAYLOW_INSPECT) * amount
        ELSE base + (IF effective_player = ACT_SMUGGLE THEN PAYOFF_SMUGGLE_DONT
                     ELSE PAYOFF_LAYLOW_DONT) * amount

calculate_payoff(player_action, inspector_action, bribe_accepted, amount) ==
    LET base == IF player_action = ACT_BRIBE THEN -BRIBE_COST ELSE 0
        effective_player ==
            IF player_action \in {ACT_BRIBE, ACT_SIGNAL_TRUCE} THEN ACT_LAY_LOW
            ELSE player_action
    IN  IF effective_player = ACT_SMUGGLE
        THEN IF inspector_action = ACT_INSPECT
             THEN base + (PAYOFF_SMUGGLE_INSPECT * amount)
             ELSE base + (PAYOFF_SMUGGLE_DONT * amount)
        ELSE IF inspector_action = ACT_INSPECT
             THEN base + PAYOFF_LAYLOW_INSPECT
             ELSE base + PAYOFF_LAYLOW_DONT

(***************************************************************************)
(* The random source                                                       *)
(***************************************************************************)
\* random.Random(seed) before any draw; free: the values an unproduced draw takes.
NewRng(track, known, free) ==
    [track |-> track, pos |-> 0, tape |-> known, free |-> free]

\* rng.random(): the set of <<value, generator afterwards>>.  A tracked
\* generator returns the stream's value at its position, producing it first
\* when no instance of the seed has read that far.
Random(rng) ==
    IF ~rng.track
    THEN {<<u, rng>> : u \in rng.free}
    ELSE IF rng.pos < Len(rng.tape)
         THEN {<<rng.tape[rng.pos + 1], [rng EXCEPT !.pos = @ + 1]>>}
         ELSE {<<u, [rng EXCEPT !.pos = @ + 1, !.tape = Append(@, u)]>> : u \in rng.free}

\* rng.uniform(a, b) = a + (b - a) * random(), in ten-thousandths.
Uniform(u, a, b) == a + ((b - a) * u) \div 100

\* random() < p, p in ten-thousandths.
Below(u, p) == u * 100 < p

(***************************************************************************)
(* InspectorAI                                                             *)
(***************************************************************************)
\* One draw of the inspector's generator: the set of [u, s].
Draw(s) == {[u |-> d[1], s |-> [s EXCEPT !.rng = d[2]]] : d \in Random(s.rng)}

\* rng.choice(seq): one draw, whose value picks a line of dialogue only.
Choice(s) == {d.s : d \in Draw(s)}

\* InspectorAI.__init__ after InspectorPersonality.__init__: the three traits
\* are the generator's first three draws.
NewInspector(rng, llm) ==
    LET s0 == [rng |-> rng, llm |-> llm,
               honesty_streak |-> 0, betrayal_count |-> 0, mood |-> "neutral",
               history_smuggler |-> <<>>, history_inspector |-> <<>>,
               history_bribes_offered |-> 0, history_bribes_accepted |-> 0,
               history_truces_signaled |-> 0, history_traps_set |-> 0,
               history_traps_sprung |-> 0,
               trust_level |-> 50, trust_err |-> 0, pending_deal |-> "None",
               immunity_turns |-> 0, consecutive_passive_rounds |-> 0,
               greed |-> 0, deceptiveness |-> 0, adaptiveness |-> 0]
    IN  UNION { UNION { { [d3.s EXCEPT !.greed = Uniform(d1.u, 3000, 7000),
                                       !.deceptiveness = Uniform(d2.u, 2000, 6000),
                                       !.adaptiveness = Uniform(d3.u, 4000, 8000)]
                          : d3 \in Draw(d2.s) }
                        : d2 \in Draw(d1.s) }
                : d1 \in Draw(s0) }

\* The number of entries of a sequence equal to a.
RECURSIVE Count(_, _)
Count(h, a) ==
    IF h = <<>> THEN 0
    ELSE (IF h[1] = a THEN 1 ELSE 0) + Count(Tail(h), a)

\* A frequency as the exact fraction the code divides.
get_smuggle_frequency(s) ==
    IF s.history_smuggler = <<>> THEN [num |-> 3, den |-> 10]
    ELSE [num |-> Count(s.history_smuggler, ACT_SMUGGLE),
          den |-> Len(s.history_smuggler)]

get_cooperation_frequency(s) ==
    IF s.history_smuggler = <<>> THEN [num |-> 1, den |-> 2]
    ELSE [num |-> Count(s.history_smuggler, ACT_LAY_LOW)
                  + Count(s.history_smuggler, ACT_SIGNAL_TRUCE)
                  + Count(s.history_smuggler, ACT_BRIBE),
          den |-> Len(s.history_smuggler)]

\* f > c/100 and f < c/100 for a fraction f.
FreqGt(f, c) == f.num * 100 > c * f.den
FreqLt(f, c) == f.num * 100 < c * f.den

Max(a, b) == IF a > b THEN a ELSE b
Min(a, b) == IF a < b THEN a ELSE b

\* The thresholds trust_level is compared with, in hundredths.
TrustThresholds == {60, 65, 70, 75}

\* trust_level > c/100 for a threshold c.
TrustGt(s, c) == s.trust_level > c \/ (s.trust_level = c /\ s.trust_err = 1)

\* self.trust_level = <a float sum of decimal value h/100>: the set of
\* inspectors afterwards.
SetTrust(s, h) ==
    {[s EXCEPT !.trust_level = h, !.trust_err = e] :
        e \in IF h \in TrustThresholds THEN {-1, 0, 1} ELSE {0}}

\* _update_trust without max(0, ...) and min(1, ...).
update_trust_noclamp(s, last_player_action) ==
    IF last_player_action = None THEN {s}
    ELSE IF last_player_action = ACT_SMUGGLE
    THEN SetTrust([s EXCEPT !.consecutive_passive_rounds = 0], s.trust_level - 10)
    ELSE IF last_player_action \in {ACT_LAY_LOW, ACT_SIGNAL_TRUCE}
    THEN SetTrust([s EXCEPT !.consecutive_passive_rounds = @ + 1], s.trust_level + 5)
    ELSE IF last_player_action = ACT_BRIBE
    THEN SetTrust([s EXCEPT !.consecutive_passive_rounds = 0], s.trust_level + 2)
    ELSE {s}

\* _update_trust with a Bribe counted as a passive round.
update_trust_bribe_passive(s, last_player_action) ==
    IF last_player_action = None THEN {s}
    ELSE IF last_player_action = ACT_SMUGGLE
    THEN SetTrust([s EXCEPT !.consecutive_passive_rounds = 0],
                  Max(0, s.trust_level - 10))
    ELSE IF last_player_action \in {ACT_LAY_LOW, ACT_SIGNAL_TRUCE}
    THEN SetTrust([s EXCEPT !.consecutive_passive_rounds = @ + 1],
                  Min(100, s.trust_level + 5))
    ELSE IF last_player_action = ACT_BRIBE
    THEN SetTrust([s EXCEPT !.consecutive_passive_rounds = @ + 1],
                  Min(100, s.trust_level + 2))
    ELSE {s}

\* InspectorAI._update_trust: the set of inspectors afterwards.
update_trust(s, last_player_action) ==
    IF last_player_action = None THEN {s}
    ELSE IF last_player_action = ACT_SMUGGLE
    THEN SetTrust([s EXCEPT !.consecutive_passive_rounds = 0],
                  Max(0, s.trust_level - 10))
    ELSE IF last_player_action \in {ACT_LAY_LOW, ACT_SIGNAL_TRUCE}
    THEN SetTrust([s EXCEPT !.consecutive_passive_rounds = @ + 1],
                  Min(100, s.trust_level + 5))
    ELSE IF last_player_action = ACT_BRIBE
    THEN SetTrust([s EXCEPT !.consecutive_passive_rounds = 0],
                  Min(100, s.trust_level + 2))
    ELSE {s}

\* _set_mood: the set of inspectors afterwards.
set_mood(s, round_num, smuggle_freq) ==
    IF FreqGt(smuggle_freq, 50) THEN {[s EXCEPT !.mood = "aggressive"]}
    ELSE IF TrustGt(s, 70)
    THEN {[d.s EXCEPT !.mood = IF Below(d.u, s.deceptiveness) THEN "deceptive"
                                ELSE "friendly"] : d \in Draw(s)}
    ELSE {[s EXCEPT !.mood = "neutral"]}

\* A return of decide: (action, is_bait, announced_intent), the inspector
\* afterwards, and the branch of decide that returned (via).
Ret(s, action, is_bait, announced, via) ==
    [s |-> s, action |-> action, is_bait |-> is_bait, announced |-> announced,
     via |-> via]

\* The last two statements of the three phase functions.
RollInspect(s, prob, via) ==
    {Ret(d.s, IF Below(d.u, prob) THEN ACT_INSPECT ELSE ACT_DONT_INSPECT,
         FALSE, "None", via) : d \in Draw(s)}

\* _early_game_decision without the round_num >= 4 test: the bait draw is
\* made from round 1.
early_game_decision_bait_from_start(s, round_num) ==
    UNION { LET base_prob == 6000 + Uniform(d1.u, -1000, 1000)
            IN  UNION { IF Below(d2.u, 1500)
                        THEN {Ret(d2.s, ACT_INSPECT, TRUE,
                                  "I might go easy on you...", "early")}
                        ELSE RollInspect(d2.s, base_prob, "early")
                        : d2 \in Draw(d1.s) }
            : d1 \in Draw(s) }

early_game_decision(s, round_num) ==
    UNION { LET base_prob == 6000 + Uniform(d1.u, -1000, 1000)
            IN  IF round_num >= 4
                THEN UNION { IF Below(d2.u, 1500)
                             THEN {Ret(d2.s, ACT_INSPECT, TRUE,
                                       "I might go easy on you...", "early")}
                             ELSE RollInspect(d2.s, base_prob, "early")
                             : d2 \in Draw(d1.s) }
                ELSE RollInspect(d1.s, base_prob, "early")
            : d1 \in Draw(s) }

\* The last n entries of a sequence (h[-n:]).
LastN(h, n) == SubSeq(h, Max(1, Len(h) - n + 1), Len(h))

\* _detect_pattern with the all-passive streak answered by Inspect.
detect_pattern_trap_passive(s) ==
    LET hs == s.history_smuggler
        last_3 == LastN(hs, 3)
        h == LastN(hs, 4)
    IN  IF Len(hs) < 3 THEN None
        ELSE IF \A i \in 1..3 : last_3[i] = ACT_SMUGGLE THEN ACT_INSPECT
        ELSE IF \A i \in 1..3 : last_3[i] \in {ACT_LAY_LOW, ACT_SIGNAL_TRUCE}
        THEN ACT_INSPECT
        ELSE IF Len(hs) >= 4 /\ h[1] # h[2] /\ h[2] # h[3] /\ h[3] # h[4]
        THEN IF h[4] \in {ACT_LAY_LOW, ACT_SIGNAL_TRUCE} THEN ACT_INSPECT
             ELSE ACT_DONT_INSPECT
        ELSE None

\* _detect_pattern with the alternation predicted the other way round.
detect_pattern_flipped(s) ==
    LET hs == s.history_smuggler
        last_3 == LastN(hs, 3)
        h == LastN(hs, 4)
    IN  IF Len(hs) < 3 THEN None
        ELSE IF \A i \in 1..3 : last_3[i] = ACT_SMUGGLE THEN ACT_INSPECT
        ELSE IF \A i \in 1..3 : last_3[i] \in {ACT_LAY_LOW, ACT_SIGNAL_TRUCE}
        THEN ACT_DONT_INSPECT
        ELSE IF Len(hs) >= 4 /\ h[1] # h[2] /\ h[2] # h[3] /\ h[3] # h[4]
        THEN IF h[4] \in {ACT_LAY_LOW, ACT_SIGNAL_TRUCE} THEN ACT_DONT_INSPECT
             ELSE ACT_INSPECT
        ELSE None

\* _detect_pattern with the all-passive streak answered by a trap ("Or set
\* trap") as an action of its own.
detect_pattern_set_trap(s) ==
    LET hs == s.history_smuggler
        last_3 == LastN(hs, 3)
        h == LastN(hs, 4)
    IN  IF Len(hs) < 3 THEN None
        ELSE IF \A i \in 1..3 : last_3[i] = ACT_SMUGGLE THEN ACT_INSPECT
        ELSE IF \A i \in 1..3 : last_3[i] \in {ACT_LAY_LOW, ACT_SIGNAL_TRUCE}
        THEN ACT_SET_TRAP
        ELSE IF Len(hs) >= 4 /\ h[1] # h[2] /\ h[2] # h[3] /\ h[3] # h[4]
        THEN IF h[4] \in {ACT_LAY_LOW, ACT_SIGNAL_TRUCE} THEN ACT_INSPECT
             ELSE ACT_DONT_INSPECT
        ELSE None

\* _detect_pattern with the alternation rule tried before the streak rules.
detect_pattern_alternation_first(s) ==
    LET hs == s.history_smuggler
        last_3 == LastN(hs, 3)
        h == LastN(hs, 4)
    IN  IF Len(hs) < 3 THEN None
        ELSE IF Len(hs) >= 4 /\ h[1] # h[2] /\ h[2] # h[3] /\ h[3] # h[4]
        THEN IF h[4] \in {ACT_LAY_LOW, ACT_SIGNAL_TRUCE} THEN ACT_INSPECT
             ELSE ACT_DONT_INSPECT
        ELSE IF \A i \in 1..3 : last_3[i] = ACT_SMUGGLE THEN ACT_INSPECT
        ELSE IF \A i \in 1..3 : last_3[i] \in {ACT_LAY_LOW, ACT_SIGNAL_TRUCE}
        THEN ACT_DONT_INSPECT
        ELSE None

\* InspectorAI._detect_pattern: the recommended action, or None.
detect_pattern(s) ==
    LET hs == s.history_smuggler
        last_3 == LastN(hs, 3)
        h == LastN(hs, 4)
    IN  IF Len(hs) < 3 THEN None
        ELSE IF \A i \in 1..3 : last_3[i] = ACT_SMUGGLE THEN ACT_INSPECT
        ELSE IF \A i \in 1..3 : last_3[i] \in {ACT_LAY_LOW, ACT_SIGNAL_TRUCE}
        THEN ACT_DONT_INSPECT
        ELSE IF Len(hs) >= 4 /\ h[1] # h[2] /\ h[2] # h[3] /\ h[3] # h[4]
        THEN IF h[4] \in {ACT_LAY_LOW, ACT_SIGNAL_TRUCE} THEN ACT_INSPECT
             ELSE ACT_DONT_INSPECT
        ELSE None

\* The tail of _mid_game_decision with the inspection roll drawn before the
\* bait draw.
mid_game_standard_roll_first(s, smuggle_freq) ==
    LET inspect_prob ==
            IF FreqGt(smuggle_freq, 45) THEN 7500 + s.adaptiveness \div 10
            ELSE IF FreqLt(smuggle_freq, 20) THEN 3500 - s.adaptiveness \div 10
            ELSE 5500
    IN  UNION { UNION { IF Below(d2.u, (s.deceptiveness * 4) \div 10)
                        THEN { IF Below(d3.u, 5000)
                               THEN Ret(d3.s, ACT_INSPECT, TRUE,
                                        "Taking it easy this round.", "mid")
                               ELSE Ret(d3.s, ACT_DONT_INSPECT, FALSE,
                                        "You're definitely getting caught.", "mid")
                               : d3 \in Draw(d2.s) }
                        ELSE {Ret(d2.s, IF Below(d1.u, inspect_prob) THEN ACT_INSPECT
                                        ELSE ACT_DONT_INSPECT, FALSE, "None", "mid")}
                        : d2 \in Draw(d1.s) }
                : d1 \in Draw(s) }

\* The tail of _mid_game_decision with the bluff flagged as a bait.
mid_game_standard_bluff_is_bait(s, smuggle_freq) ==
    LET inspect_prob ==
            IF FreqGt(smuggle_freq, 45) THEN 7500 + s.adaptiveness \div 10
            ELSE IF FreqLt(smuggle_freq, 20) THEN 3500 - s.adaptiveness \div 10
            ELSE 5500
    IN  UNION { IF Below(d1.u, (s.deceptiveness * 4) \div 10)
                THEN { IF Below(d2.u, 5000)
                       THEN Ret(d2.s, ACT_INSPECT, TRUE, "Taking it easy this round.", "mid")
                       ELSE Ret(d2.s, ACT_DONT_INSPECT, TRUE,
                                "You're definitely getting caught.", "mid")
                       : d2 \in Draw(d1.s) }
                ELSE RollInspect(d1.s, inspect_prob, "mid")
                : d1 \in Draw(s) }

\* "Standard adaptive play" and "Add bait possibility" of _mid_game_decision.
mid_game_standard(s, smuggle_freq) ==
    LET inspect_prob ==
            IF FreqGt(smuggle_freq, 45) THEN 7500 + s.adaptiveness \div 10
            ELSE IF FreqLt(smuggle_freq, 20) THEN 3500 - s.adaptiveness \div 10
            ELSE 5500
    IN  UNION { IF Below(d1.u, (s.deceptiveness * 4) \div 10)
                THEN { IF Below(d2.u, 5000)
                       THEN Ret(d2.s, ACT_INSPECT, TRUE, "Taking it easy this round.", "mid")
                       ELSE Ret(d2.s, ACT_DONT_INSPECT, FALSE,
                                "You're definitely getting caught.", "mid")
                       : d2 \in Draw(d1.s) }
                ELSE RollInspect(d1.s, inspect_prob, "mid")
                : d1 \in Draw(s) }

\* _mid_game_decision with the collusion test passing at trust 0.65 itself.
mid_game_decision_at_threshold(s, round_num, smuggle_freq, coop_freq) ==
    IF s.trust_level >= 65 /\ s.consecutive_passive_rounds >= 2
    THEN UNION { IF Below(d1.u, (s.trust_level - 30) * 100)
                 THEN {Ret(d1.s, ACT_DONT_INSPECT, FALSE,
                           "Let's keep this arrangement going.", "mid")}
                 ELSE UNION { IF Below(d2.u, s.deceptiveness)
                              THEN {Ret([d2.s EXCEPT !.history_traps_set = @ + 1],
                                        ACT_INSPECT, TRUE,
                                        "I appreciate the cooperation...", "mid")}
                              ELSE mid_game_standard(d2.s, smuggle_freq)
                              : d2 \in Draw(d1.s) }
                 : d1 \in Draw(s) }
    ELSE mid_game_standard(s, smuggle_freq)

mid_game_decision(s, round_num, smuggle_freq, coop_freq) ==
    IF TrustGt(s, 65) /\ s.consecutive_passive_rounds >= 2
    THEN UNION { IF Below(d1.u, (s.trust_level - 30) * 100)
                 THEN {Ret(d1.s, ACT_DONT_INSPECT, FALSE,
                           "Let's keep this arrangement going.", "mid")}
                 ELSE UNION { IF Below(d2.u, s.deceptiveness)
                              THEN {Ret([d2.s EXCEPT !.history_traps_set = @ + 1],
                                        ACT_INSPECT, TRUE,
                                        "I appreciate the cooperation...", "mid")}
                              ELSE mid_game_standard(d2.s, smuggle_freq)
                              : d2 \in Draw(d1.s) }
                 : d1 \in Draw(s) }
    ELSE mid_game_standard(s, smuggle_freq)

\* The tail of _late_game_decision with the upper frequency extreme at 0.7.
late_game_exploit_lenient(s, round_num, smuggle_freq) ==
    IF FreqGt(smuggle_freq, 70)
    THEN {Ret(s, ACT_INSPECT, FALSE, "Too aggressive. Predictable.", "late")}
    ELSE IF FreqLt(smuggle_freq, 20)
    THEN { IF Below(d.u, s.deceptiveness)
           THEN Ret(d.s, ACT_INSPECT, TRUE, "Safe players are boring.", "late")
           ELSE Ret(d.s, ACT_DONT_INSPECT, FALSE, "None", "late")
           : d \in Draw(s) }
    ELSE IF round_num >= 19
    THEN UNION { IF Below(d.u, 7000)
                 THEN {Ret(d.s, ACT_INSPECT, FALSE, "Can't let you win now.", "late")}
                 ELSE RollInspect(d.s, 5500, "late")
                 : d \in Draw(s) }
    ELSE RollInspect(s, 5500, "late")

\* The tail of _late_game_decision with the final-rounds step placed before
\* the frequency extremes.
late_game_exploit_final_first(s, round_num, smuggle_freq) ==
    LET extremes(s1) ==
            IF FreqGt(smuggle_freq, 55)
            THEN {Ret(s1, ACT_INSPECT, FALSE, "Too aggressive. Predictable.", "late")}
            ELSE IF FreqLt(smuggle_freq, 20)
            THEN { IF Below(d.u, s1.deceptiveness)
                   THEN Ret(d.s, ACT_INSPECT, TRUE, "Safe players are boring.", "late")
                   ELSE Ret(d.s, ACT_DONT_INSPECT, FALSE, "None", "late")
                   : d \in Draw(s1) }
            ELSE RollInspect(s1, 5500, "late")
    IN  IF round_num >= 19
        THEN UNION { IF Below(d.u, 7000)
                     THEN {Ret(d.s, ACT_INSPECT, FALSE, "Can't let you win now.", "late")}
                     ELSE extremes(d.s)
                     : d \in Draw(s) }
        ELSE extremes(s)

\* _late_game_decision from "Aggressive exploitation of predictable players" on.
late_game_exploit(s, round_num, smuggle_freq) ==
    IF FreqGt(smuggle_freq, 55)
    THEN {Ret(s, ACT_INSPECT, FALSE, "Too aggressive. Predictable.", "late")}
    ELSE IF FreqLt(smuggle_freq, 20)
    THEN { IF Below(d.u, s.deceptiveness)
           THEN Ret(d.s, ACT_INSPECT, TRUE, "Safe players are boring.", "late")
           ELSE Ret(d.s, ACT_DONT_INSPECT, FALSE, "None", "late")
           : d \in Draw(s) }
    ELSE IF round_num >= 19
    THEN UNION { IF Below(d.u, 7000)
                 THEN {Ret(d.s, ACT_INSPECT, FALSE, "Can't let you win now.", "late")}
                 ELSE RollInspect(d.s, 5500, "late")
                 : d \in Draw(s) }
    ELSE RollInspect(s, 5500, "late")

\* _late_game_decision from "High trust + end game" on.
late_game_trust(s, round_num, smuggle_freq) ==
    IF TrustGt(s, 75) /\ round_num >= 18
    THEN UNION { IF Below(d.u, 5000)
                 THEN {Ret(d.s, ACT_DONT_INSPECT, FALSE,
                           "We've built something here.", "late")}
                 ELSE late_game_exploit(d.s, round_num, smuggle_freq)
                 : d \in Draw(s) }
    ELSE late_game_exploit(s, round_num, smuggle_freq)

\* _late_game_decision answering every detected pattern with Inspect.
late_game_decision_inspect_patterns(s, round_num, smuggle_freq, coop_freq) ==
    LET pattern_action == detect_pattern(s)
    IN  IF pattern_action # None
        THEN UNION { IF Below(d.u, 7000)
                     THEN {Ret(d.s, ACT_INSPECT, FALSE,
                               "I see what you're doing.", "late")}
                     ELSE late_game_trust(d.s, round_num, smuggle_freq)
                     : d \in Draw(s) }
        ELSE late_game_trust(s, round_num, smuggle_freq)

late_game_decision(s, round_num, smuggle_freq, coop_freq) ==
    LET pattern_action == detect_pattern(s)
    IN  IF pattern_action # None
        THEN UNION { IF Below(d.u, 7000)
                     THEN {Ret(d.s, pattern_action, FALSE,
                               "I see what you're doing.", "late")}
                     ELSE late_game_trust(d.s, round_num, smuggle_freq)
                     : d \in Draw(s) }
        ELSE late_game_trust(s, round_num, smuggle_freq)

\* "Handle active immunity" of decide, with the decrement left out.
decide_immune_keep(s) ==
    {Ret(s, ACT_DONT_INSPECT, FALSE, "I'm looking the other way.", "immunity")}

\* "Handle active immunity" of decide placed after _update_trust: the last
\* recorded smuggler action moves trust before the immune return.
decide_immune_after_trust(s) ==
    LET last == IF s.history_smuggler = <<>> THEN None
                ELSE s.history_smuggler[Len(s.history_smuggler)]
    IN  {Ret([s1 EXCEPT !.immunity_turns = @ - 1], ACT_DONT_INSPECT, FALSE,
             "I'm looking the other way.", "immunity")
         : s1 \in update_trust(s, last)}

\* "Handle active immunity" of decide, entered with immunity_turns > 0.  The
\* check of pending_deal == "trap" inside it is a pass.
decide_immune(s) ==
    {Ret([s EXCEPT !.immunity_turns = @ - 1], ACT_DONT_INSPECT, FALSE,
         "I'm looking the other way.", "immunity")}

\* decide with the phase boundaries compared strictly: rounds 6 and 14 fall
\* into the later phase.
decide_strict_bounds(s, round_num, player_score, last_player_action) ==
    IF s.immunity_turns > 0
    THEN {Ret([s EXCEPT !.immunity_turns = @ - 1], ACT_DONT_INSPECT, FALSE,
              "I'm looking the other way.", "immunity")}
    ELSE LET smuggle_freq == get_smuggle_frequency(s)
             coop_freq == get_cooperation_frequency(s)
         IN  UNION { UNION { IF round_num < EARLY_GAME_END
                             THEN early_game_decision(s2, round_num)
                             ELSE IF round_num < MID_GAME_END
                             THEN mid_game_decision(s2, round_num, smuggle_freq,
                                                    coop_freq)
                             ELSE late_game_decision(s2, round_num, smuggle_freq,
                                                     coop_freq)
                             : s2 \in set_mood(s1, round_num, smuggle_freq) }
                     : s1 \in update_trust(s, last_player_action) }

\* InspectorAI.decide: the set of its possible returns.
decide(s, round_num, player_score, last_player_action) ==
    IF s.immunity_turns > 0
    THEN decide_immune(s)
    ELSE IF s.pending_deal = "accepted"
    THEN { IF d.u * 100 > s.deceptiveness
           THEN Ret([d.s EXCEPT !.pending_deal = "None", !.honesty_streak = @ + 1],
                    ACT_DONT_INSPECT, FALSE, "I'll keep my word.", "legacy")
           ELSE Ret([d.s EXCEPT !.pending_deal = "None", !.honesty_streak = 0,
                                !.betrayal_count = @ + 1,
                                !.history_traps_set = @ + 1],
                    ACT_INSPECT, TRUE, "A deal's a deal... or is it?", "legacy")
           : d \in Draw(s) }
    ELSE LET smuggle_freq == get_smuggle_frequency(s)
             coop_freq == get_cooperation_frequency(s)
         IN  UNION { UNION { IF round_num <= EARLY_GAME_END
                             THEN early_game_decision(s2, round_num)
                             ELSE IF round_num <= MID_GAME_END
                             THEN mid_game_decision(s2, round_num, smuggle_freq,
                                                    coop_freq)
                             ELSE late_game_decision(s2, round_num, smuggle_freq,
                                                     coop_freq)
                             : s2 \in set_mood(s1, round_num, smuggle_freq) }
                     : s1 \in update_trust(s, last_player_action) }

\* The accepted branch of handle_bribe, with a grant one turn short.
accept_bribe_one_turn(s, will_betray) ==
    LET s2 == [s EXCEPT !.history_bribes_accepted = @ + 1]
    IN  IF will_betray
        THEN [s2 EXCEPT !.pending_deal = "trap"]
        ELSE [s2 EXCEPT !.immunity_turns = IMMUNITY_GRANT - 1,
                        !.pending_deal = "safe"]

\* The accepted branch of handle_bribe with the grant added to the turns left.
accept_bribe_accumulate(s, will_betray) ==
    LET s2 == [s EXCEPT !.history_bribes_accepted = @ + 1]
    IN  IF will_betray
        THEN [s2 EXCEPT !.pending_deal = "trap"]
        ELSE [s2 EXCEPT !.immunity_turns = @ + IMMUNITY_GRANT,
                        !.pending_deal = "safe"]

\* The accepted branch of handle_bribe without its closing "safe" assignment:
\* an honoured bribe is left pending as "accepted".
accept_bribe_left_accepted(s, will_betray) ==
    LET s2 == [s EXCEPT !.history_bribes_accepted = @ + 1]
    IN  IF will_betray
        THEN [s2 EXCEPT !.pending_deal = "trap"]
        ELSE [s2 EXCEPT !.immunity_turns = IMMUNITY_GRANT,
                        !.pending_deal = "accepted"]

\* The accepted branch of handle_bribe: the inspector afterwards.  An
\* honoured bribe passes through pending_deal = "accepted" and ends "safe".
accept_bribe(s, will_betray) ==
    LET s2 == [s EXCEPT !.history_bribes_accepted = @ + 1]
    IN  IF will_betray
        THEN [s2 EXCEPT !.pending_deal = "trap"]
        ELSE [s2 EXCEPT !.immunity_turns = IMMUNITY_GRANT,
                        !.pending_deal = "safe"]

\* handle_bribe counting the offer as accepted before deciding on it.
handle_bribe_count_first(s, round_num, player_score) ==
    LET s1 == [s EXCEPT !.history_bribes_offered = @ + 1,
                        !.history_bribes_accepted = @ + 1]
        acceptance_prob ==
            s1.greed + s1.trust_level * 20
            - (IF round_num > MID_GAME_END THEN 1500 ELSE 0)
    IN  UNION { IF Below(d1.u, acceptance_prob)
                THEN { LET will_betray == Below(d2.u * 2, s1.deceptiveness)
                       IN  [s |-> accept_bribe(d2.s, will_betray),
                            accepted |-> TRUE, will_betray |-> will_betray]
                       : d2 \in Draw(d1.s) }
                ELSE {[s |-> d1.s, accepted |-> FALSE, will_betray |-> FALSE]}
                : d1 \in Draw(s1) }

\* InspectorAI.handle_bribe: the set of [s, accepted, will_betray].
handle_bribe(s, round_num, player_score) ==
    LET s1 == [s EXCEPT !.history_bribes_offered = @ + 1]
        acceptance_prob ==
            s1.greed + s1.trust_level * 20
            - (IF round_num > MID_GAME_END THEN 1500 ELSE 0)
    IN  UNION { IF Below(d1.u, acceptance_prob)
                THEN { LET will_betray == Below(d2.u * 2, s1.deceptiveness)
                       IN  [s |-> accept_bribe(d2.s, will_betray),
                            accepted |-> TRUE, will_betray |-> will_betray]
                       : d2 \in Draw(d1.s) }
                ELSE {[s |-> d1.s, accepted |-> FALSE, will_betray |-> FALSE]}
                : d1 \in Draw(s1) }

\* handle_truce_signal with trust_high = trust_level >= 0.6.
handle_truce_signal_at_threshold(s) ==
    LET s1 == [s EXCEPT !.history_truces_signaled = @ + 1]
        trust_high == s1.trust_level >= 60
    IN  IF trust_high
        THEN SetTrust(s1, Min(100, s1.trust_level + 10))
        ELSE {s1}

\* InspectorAI.handle_truce_signal: the set of inspectors afterwards.
handle_truce_signal(s) ==
    LET s1 == [s EXCEPT !.history_truces_signaled = @ + 1]
        trust_high == TrustGt(s1, 60)
    IN  IF trust_high
        THEN SetTrust(s1, Min(100, s1.trust_level + 10))
        ELSE {s1}

\* record_round appending the round to both histories twice.
record_round_twice(s, player_action, inspector_action, was_trap_sprung) ==
    [s EXCEPT !.history_smuggler = Append(Append(@, player_action), player_action),
              !.history_inspector =
                  Append(Append(@, inspector_action), inspector_action),
              !.history_traps_sprung = IF was_trap_sprung THEN @ + 1 ELSE @]

\* record_round without the count of sprung traps.
record_round_uncounted_trap(s, player_action, inspector_action, was_trap_sprung) ==
    [s EXCEPT !.history_smuggler = Append(@, player_action),
              !.history_inspector = Append(@, inspector_action)]

record_round(s, player_action, inspector_action, was_trap_sprung) ==
    [s EXCEPT !.history_smuggler = Append(@, player_action),
              !.history_inspector = Append(@, inspector_action),
              !.history_traps_sprung = IF was_trap_sprung THEN @ + 1 ELSE @]

(***************************************************************************)
(* InspectorPersonality: the dialogue, which shares the inspector's        *)
(* generator.  Only what it does to the generator is kept; the text is not.*)
(***************************************************************************)
\* One call of the remote dialogue generator (LLMDialogueGenerator.generate):
\* whether it returned a line.  _call_openai and _call_anthropic return None
\* on any error or timeout.  s.llm is "none" when no generator is configured
\* (llm_generator=None), "down" when every call of this run fails, and
\* "flaky" when each call may succeed or fail.
LLMCall(s) == IF s.llm = "flaky" THEN {TRUE, FALSE} ELSE {FALSE}

\* InspectorPersonality.get_pre_round_comment: the set of inspectors afterwards.
get_pre_round_comment(s, round_num, player_smuggle_freq, last_player_action) ==
    UNION { IF ok THEN {s}
            ELSE IF s.mood \in {"aggressive", "friendly", "deceptive"} THEN Choice(s)
            ELSE IF FreqGt(player_smuggle_freq, 50) THEN Choice(s)
            ELSE IF FreqLt(player_smuggle_freq, 20) /\ round_num > 5 THEN Choice(s)
            ELSE UNION { IF Below(d.u, 4000) THEN Choice(d.s) ELSE {d.s}
                         : d \in Draw(s) }
            : ok \in LLMCall(s) }

\* InspectorPersonality.get_outcome_comment: the set of inspectors afterwards.
\* Every smuggler action has a static line, so the fallback always draws once.
get_outcome_comment(s, player_action, inspector_action, was_trap) ==
    UNION { IF was_trap /\ trap_ok THEN {s}
            ELSE UNION { IF ok THEN {s} ELSE Choice(s) : ok \in LLMCall(s) }
            : trap_ok \in LLMCall(s) }

(***************************************************************************)
(* The game loops                                                          *)
(***************************************************************************)
\* The override with the trap branch leaving the deal pending.
override_decision_keep(s, player_action, bribe_accepted, ret) ==
    LET forced ==
            IF bribe_accepted /\ s.pending_deal # "trap"
            THEN [s |-> s, inspector_action |-> ACT_DONT_INSPECT, was_trap |-> FALSE]
            ELSE IF s.pending_deal = "trap"
            THEN [s |-> s, inspector_action |-> ACT_INSPECT, was_trap |-> TRUE]
            ELSE [s |-> s, inspector_action |-> ret.action, was_trap |-> FALSE]
    IN  IF ret.is_bait /\ player_action = ACT_SMUGGLE
        THEN [forced EXCEPT !.was_trap = TRUE]
        ELSE forced

\* The override with an accepted bribe always honoured.
override_decision_honour(s, player_action, bribe_accepted, ret) ==
    LET forced ==
            IF bribe_accepted
            THEN [s |-> [s EXCEPT !.pending_deal = "None"],
                  inspector_action |-> ACT_DONT_INSPECT, was_trap |-> FALSE]
            ELSE [s |-> s, inspector_action |-> ret.action, was_trap |-> FALSE]
    IN  IF ret.is_bait /\ player_action = ACT_SMUGGLE
        THEN [forced EXCEPT !.was_trap = TRUE]
        ELSE forced

\* The override with the bait test not asking for a Smuggle: any round
\* decided with a bait is marked as a trap.
override_decision_bait_any(s, player_action, bribe_accepted, ret) ==
    LET forced ==
            IF bribe_accepted /\ s.pending_deal # "trap"
            THEN [s |-> s, inspector_action |-> ACT_DONT_INSPECT, was_trap |-> FALSE]
            ELSE IF s.pending_deal = "trap"
            THEN [s |-> [s EXCEPT !.pending_deal = "None"],
                  inspector_action |-> ACT_INSPECT, was_trap |-> TRUE]
            ELSE [s |-> s, inspector_action |-> ret.action, was_trap |-> FALSE]
    IN  IF ret.is_bait
        THEN [forced EXCEPT !.was_trap = TRUE]
        ELSE forced

\* "If bribe was accepted, override decision (unless trap)" and "Check if
\* player fell into bait": [s, inspector_action, was_trap].
override_decision(s, player_action, bribe_accepted, ret) ==
    LET forced ==
            IF bribe_accepted /\ s.pending_deal # "trap"
            THEN [s |-> s, inspector_action |-> ACT_DONT_INSPECT, was_trap |-> FALSE]
            ELSE IF s.pending_deal = "trap"
            THEN [s |-> [s EXCEPT !.pending_deal = "None"],
                  inspector_action |-> ACT_INSPECT, was_trap |-> TRUE]
            ELSE [s |-> s, inspector_action |-> ret.action, was_trap |-> FALSE]
    IN  IF ret.is_bait /\ player_action = ACT_SMUGGLE
        THEN [forced EXCEPT !.was_trap = TRUE]
        ELSE forced

\* What one round did, for the properties: the arguments and the return of
\* handle_bribe and decide, the inspector's fields when decide was entered
\* (pre_*) and when it returned (post_*), and the round's locals.
Observe(round_num, player_action, amount, last, pre, hb, ret, ov, payoff) ==
    [round |-> round_num, player_action |-> player_action, amount |-> amount,
     last |-> last,
     bribe_accepted |-> hb.accepted, will_betray |-> hb.will_betray,
     pre_immunity |-> pre.immunity_turns, pre_pending |-> pre.pending_deal,
     pre_trust |-> pre.trust_level, pre_hist |-> Len(pre.history_smuggler),
     pre_passive |-> pre.consecutive_passive_rounds,
     post_passive |-> ret.s.consecutive_passive_rounds,
     pre_hist_inspector |-> Len(pre.history_inspector),
     action |-> ret.action, is_bait |-> ret.is_bait, announced |-> ret.announced,
     via |-> ret.via,
     post_immunity |-> ret.s.immunity_turns, post_pending |-> ret.s.pending_deal,
     post_trust |-> ret.s.trust_level,
     inspector_action |-> ov.inspector_action, was_trap |-> ov.was_trap,
     payoff |-> payoff, end_pending |-> ov.s.pending_deal]

\* "Handle special actions" of both loops: the set of [s, accepted, will_betray].
special_action(s, round_num, score, player_action) ==
    IF player_action = ACT_BRIBE THEN handle_bribe(s, round_num, score)
    ELSE IF player_action = ACT_SIGNAL_TRUCE
    THEN {[s |-> s1, accepted |-> FALSE, will_betray |-> FALSE] :
             s1 \in handle_truce_signal(s)}
    ELSE {[s |-> s, accepted |-> FALSE, will_betray |-> FALSE]}

\* The inline payoff of WebGameSession.play_round with the passive payoffs
\* multiplied by the amount as well.
web_payoff_scaled(player_action, inspector_action, amount) ==
    LET payoff0 == IF player_action = ACT_BRIBE THEN 0 - BRIBE_COST ELSE 0
        effective_player ==
            IF player_action \in {ACT_BRIBE, ACT_SIGNAL_TRUCE} THEN ACT_LAY_LOW
            ELSE player_action
    IN  IF effective_player = ACT_SMUGGLE
        THEN IF inspector_action = ACT_INSPECT
             THEN payoff0 + (PAYOFF_SMUGGLE_INSPECT * amount)
             ELSE payoff0 + (PAYOFF_SMUGGLE_DONT * amount)
        ELSE IF inspector_action = ACT_INSPECT
             THEN payoff0 + (PAYOFF_LAYLOW_INSPECT * amount)
             ELSE payoff0 + (PAYOFF_LAYLOW_DONT * amount)

\* "4. Payoff" of WebGameSession.play_round, computed inline.
web_payoff(player_action, inspector_action, amount) ==
    LET payoff0 == IF player_action = ACT_BRIBE THEN 0 - BRIBE_COST ELSE 0
        effective_player ==
            IF player_action \in {ACT_BRIBE, ACT_SIGNAL_TRUCE} THEN ACT_LAY_LOW
            ELSE player_action
    IN  IF effective_player = ACT_SMUGGLE
        THEN IF inspector_action = ACT_INSPECT
             THEN payoff0 + (PAYOFF_SMUGGLE_INSPECT * amount)
             ELSE payoff0 + (PAYOFF_SMUGGLE_DONT * amount)
        ELSE IF inspector_action = ACT_INSPECT
             THEN payoff0 + PAYOFF_LAYLOW_INSPECT
             ELSE payoff0 + PAYOFF_LAYLOW_DONT

\* WebGameSession.__init__ and InspectionGame.__init__: the set of new games.
\* The advisor's generator (self.rng) is a second object that only picks the
\* insight text; it is not kept.
WebGameSession(rng) ==
    {[kind |-> "web", round_num |-> 0, score |-> 0, history |-> <<>>,
      last_player_action |-> None, inspector |-> s] : s \in NewInspector(rng, "none")}

InspectionGame(rng, llm_config) ==
    {[kind |-> "cli", round_num |-> 0, score |-> 0, history_payoffs |-> <<>>,
      last_player_action |-> None, inspector |-> s] : s \in NewInspector(rng, llm_config)}

\* WebGameSession.play_round below its "Game Over" guard: the set of [g, o],
\* the session afterwards and what the round did.
web_play_round(g, player_action, amount) ==
    LET round_num == g.round_num + 1
    IN  UNION { UNION {
            LET ov == override_decision(ret.s, player_action, hb.accepted, ret)
                payoff == web_payoff(player_action, ov.inspector_action, amount)
                round_result ==
                    [round |-> round_num, player_action |-> player_action,
                     inspector_action |-> ov.inspector_action, payoff |-> payoff,
                     amount |-> amount, total_score |-> g.score + payoff,
                     was_trap |-> ov.was_trap, bribe_accepted |-> hb.accepted,
                     game_over |-> round_num >= ROUNDS_PER_GAME]
            IN  { [g |-> [g EXCEPT !.round_num = round_num,
                                   !.score = @ + payoff,
                                   !.history = Append(@, round_result),
                                   !.last_player_action = player_action,
                                   !.inspector = record_round(c, player_action,
                                                     ov.inspector_action, ov.was_trap)],
                   o |-> Observe(round_num, player_action, amount,
                                 g.last_player_action, hb.s, hb, ret, ov, payoff)]
                  : c \in get_outcome_comment(ov.s, player_action,
                                              ov.inspector_action, ov.was_trap) }
            : ret \in decide(hb.s, round_num, g.score, g.last_player_action) }
        : hb \in special_action(g.inspector, round_num, g.score, player_action) }

\* The handler's cap with the lower limit left out.
clamp_amount_upper_only(amount) == Min(amount, MAX_AMOUNT)

\* The /api/move handler's cap of the posted amount.
clamp_amount(amount) == Max(MIN_AMOUNT, Min(amount, MAX_AMOUNT))

\* InspectionGame.play_round with the player's choice at the prompt: the set
\* of [g, o].  The CLI always passes amount=1.
cli_play_round(g, player_action) ==
    LET round_num == g.round_num + 1
        smuggle_freq == get_smuggle_frequency(g.inspector)
    IN  UNION { UNION { UNION {
            LET ov == override_decision(ret.s, player_action, hb.accepted, ret)
                payoff == calculate_payoff(player_action, ov.inspector_action,
                                           hb.accepted, 1)
            IN  { [g |-> [g EXCEPT !.round_num = round_num,
                                   !.score = @ + payoff,
                                   !.history_payoffs = Append(@, payoff),
                                   !.last_player_action = player_action,
                                   !.inspector = record_round(c, player_action,
                                                     ov.inspector_action, ov.was_trap)],
                   o |-> Observe(round_num, player_action, 1,
                                 g.last_player_action, hb.s, hb, ret, ov, payoff)]
                  : c \in get_outcome_comment(ov.s, player_action,
                                              ov.inspector_action, ov.was_trap) }
            : ret \in decide(hb.s, round_num, g.score, g.last_player_action) }
          : hb \in special_action(s0, round_num, g.score, player_action) }
        : s0 \in get_pre_round_comment(g.inspector, round_num, smuggle_freq,
                                       g.last_player_action) }

(***************************************************************************)
(* Spec: one game, played to its end through the web handler or the CLI    *)
(* loop.  The smuggler and the generator follow the script chosen with the *)
(* game (a habitual action, amount and draw) except in one window of at    *)
(* most MaxFree consecutive rounds, placed anywhere, in which the action,  *)
(* the posted amount and every draw are free.                              *)
(***************************************************************************)
Scripts ==
    {[action |-> ACT_LAY_LOW, amount |-> 1, draw |-> 95],
     [action |-> ACT_SMUGGLE, amount |-> 3, draw |-> 5],
     [action |-> ACT_BRIBE, amount |-> 1, draw |-> 50]}

NoGame == [kind |-> "none"]
NoPure == [op |-> "none"]

\* A generator whose stream is not followed: each draw is any value of free.
Untracked(free) == NewRng(FALSE, <<>>, free)

SetFree(g, free) == [g EXCEPT !.inspector.rng = Untracked(free)]

Init ==
    /\ script \in Scripts
    /\ game \in {SetFree(g, Draws) :
                    g \in WebGameSession(Untracked({script.draw}))
                          \cup InspectionGame(Untracked({script.draw}), "none")}
    /\ budget = MaxFree
    /\ lastFree = FALSE
    /\ obs = <<>>
    /\ reply = "none"
    /\ game2 = NoGame /\ tape = <<>> /\ inputs = <<>> /\ obs2 = <<>>
    /\ pure = NoPure

\* Whether the coming round may be a free one, and what a round may use.
MayBeFree == budget > 0 /\ (budget = MaxFree \/ lastFree)
ActionsOf(free) == IF free THEN SmugglerActions ELSE {script.action}
AmountsOf(free) == IF free THEN RawAmounts ELSE {script.amount}
DrawsOf(free) == IF free THEN Draws ELSE {script.draw}

Played(r, free) ==
    /\ game' = SetFree(r.g, Draws)
    /\ obs' = Append(obs, r.o)
    /\ reply' = "round"
    /\ budget' = IF free THEN budget - 1 ELSE budget
    /\ lastFree' = free
    /\ UNCHANGED <<game2, tape, inputs, script, obs2, pure>>

\* POST /api/move with a valid action and an integer amount.
Move ==
    /\ game.kind = "web"
    /\ game.round_num < ROUNDS_PER_GAME
    /\ \E free \in BOOLEAN :
          /\ free => MayBeFree
          /\ \E action \in ActionsOf(free),
                amount \in {clamp_amount(a) : a \in AmountsOf(free)} :
                \E r \in web_play_round(SetFree(game, DrawsOf(free)), action,
                                        amount) :
                    Played(r, free)

\* POST /api/move after the last round with play_round's guard left out: a
\* twenty-first round is played.
MoveAfterLastRound ==
    /\ game.kind = "web"
    /\ game.round_num = ROUNDS_PER_GAME
    /\ \E r \in web_play_round(SetFree(game, DrawsOf(FALSE)), script.action,
                               clamp_amount(script.amount)) :
          Played(r, FALSE)

\* POST /api/move after the last round: play_round returns {'error': 'Game Over'}.
MoveGameOver ==
    /\ game.kind = "web"
    /\ game.round_num >= ROUNDS_PER_GAME
    /\ reply' = "Game Over"
    /\ UNCHANGED <<game, game2, tape, inputs, script, budget, lastFree, obs, obs2, pure>>

\* One pass of main's loop "while not game.is_game_over(): game.play_round()".
CliRound ==
    /\ game.kind = "cli"
    /\ ~(game.round_num >= ROUNDS_PER_GAME)
    /\ \E free \in BOOLEAN :
          /\ free => MayBeFree
          /\ \E action \in ActionsOf(free) :
                \E r \in cli_play_round(SetFree(game, DrawsOf(free)), action) :
                    Played(r, free)

Next == Move \/ MoveGameOver \/ CliRound

Spec == Init /\ [][Next]_vars

(***************************************************************************)
(* PairSpec: two CLI games constructed independently from one seed and fed *)
(* the same smuggler actions, game first and game2 after it.  Both read    *)
(* the one stream of the seed (tape).  With the dialogue generator         *)
(* configured, every call of it fails in game (static fallback text) and   *)
(* each call returns a line or nothing in game2.                           *)
(***************************************************************************)
Seeded(known) == NewRng(TRUE, known, PairDraws)

\* The game with the produced part of its seed's stream known to its generator,
\* and without it (the stream is kept once, in tape).
Load(g, known) == [g EXCEPT !.inspector.rng.tape = known]
Unload(g) == [g EXCEPT !.inspector.rng.tape = <<>>]

PairInit ==
    /\ \E llm_config \in BOOLEAN :
          \E g \in InspectionGame(Seeded(<<>>), IF llm_config THEN "down" ELSE "none") :
              /\ game = Unload(g)
              /\ tape = g.inspector.rng.tape
              /\ game2 \in {Unload(h) :
                                h \in InspectionGame(Seeded(g.inspector.rng.tape),
                                           IF llm_config THEN "flaky" ELSE "none")}
    /\ inputs = <<>>
    /\ obs = <<>> /\ obs2 = <<>>
    /\ script = [action |-> None, amount |-> 1, draw |-> 0]
    /\ budget = 0 /\ lastFree = FALSE /\ reply = "none"
    /\ pure = NoPure

\* The first game plays a round on the action typed at its prompt.
FirstRound ==
    /\ game.round_num = game2.round_num
    /\ game.round_num < MaxPairRounds
    /\ \E action \in SmugglerActions :
          \E r \in cli_play_round(Load(game, tape), action) :
              /\ game' = Unload(r.g)
              /\ tape' = r.g.inspector.rng.tape
              /\ obs' = Append(obs, r.o)
              /\ inputs' = Append(inputs, action)
    /\ UNCHANGED <<game2, obs2, script, budget, lastFree, reply, pure>>

\* The second game plays the same round on the same action.
SecondRound ==
    /\ game2.round_num < game.round_num
    /\ \E r \in cli_play_round(Load(game2, tape), inputs[game2.round_num + 1]) :
          /\ game2' = Unload(r.g)
          /\ tape' = r.g.inspector.rng.tape
          /\ obs2' = Append(obs2, r.o)
    /\ UNCHANGED <<game, obs, inputs, script, budget, lastFree, reply, pure>>

PairNext == FirstRound \/ SecondRound

PairSpec == PairInit /\ [][PairNext]_vars

(***************************************************************************)
(* PureSpec: the functions of the engine applied one at a time, each to    *)
(* every input of a bounded set.                                           *)
(***************************************************************************)
PayoffInputs ==
    [op : {"payoff"}, player_action : SmugglerActions,
     inspector_action : InspectorActions, bribe_accepted : BOOLEAN,
     amount : MIN_AMOUNT..MAX_AMOUNT, done : {FALSE}, payoff : {0},
     web_payoff : {0}]

\* Every smuggler history of at most n rounds.
Histories(n) == UNION {[1..k -> SmugglerActions] : k \in 0..n}

PatternInputs ==
    [op : {"pattern"}, history : Histories(MaxHistory), done : {FALSE},
     result : {None}]

\* Inspectors as constructed, one for each draw the three traits can share.
BaseInspectors ==
    {[s EXCEPT !.rng = Untracked(Draws)] :
        s \in UNION {NewInspector(Untracked({u}), "none") : u \in Draws}}

\* The values trust_level takes: each hundredth, with every sign of
\* rounding error where it is a threshold.
TrustStates(hundredths) ==
    {[trust_level |-> h, trust_err |-> e] :
        h \in hundredths, e \in {-1, 0, 1}} \ 
    {[trust_level |-> h, trust_err |-> e] :
        h \in hundredths \ TrustThresholds, e \in {-1, 1}}

\* An inspector in mid-game: b with its trust and passive counter set.
WithTrust(b, ts, passive) ==
    [b EXCEPT !.trust_level = ts.trust_level, !.trust_err = ts.trust_err,
              !.consecutive_passive_rounds = passive]

TrustInputs ==
    [op : {"trust"},
     s : {WithTrust(b, ts, c) : b \in {CHOOSE b \in BaseInspectors : TRUE},
                                ts \in TrustStates(0..100), c \in 0..MaxPassive},
     last : SmugglerActions \cup {None}, done : {FALSE}]

\* An inspector in mid-game: b with trust, passive counter, immunity,
\* pending deal and histories set.  The inspector history has an entry for
\* each smuggler entry.
MidGame(b, ts, passive, immunity, pending, h) ==
    [WithTrust(b, ts, passive) EXCEPT
        !.immunity_turns = immunity, !.pending_deal = pending,
        !.history_smuggler = h,
        !.history_inspector = [i \in DOMAIN h |->
                                  IF h[i] = ACT_SMUGGLE THEN ACT_INSPECT
                                  ELSE ACT_DONT_INSPECT],
        !.history_bribes_offered = Count(h, ACT_BRIBE),
        !.history_truces_signaled = Count(h, ACT_SIGNAL_TRUCE)]

\* The deals handle_bribe and handle_truce_signal can find pending: none
\* yet, or the "safe" an honoured bribe left.
DealsBefore == {"None", "safe"}

\* One history for each answer of the pattern detector.
HistorySamples ==
    {<<>>, <<ACT_SMUGGLE, ACT_SMUGGLE, ACT_SMUGGLE>>,
     <<ACT_BRIBE, ACT_LAY_LOW, ACT_SIGNAL_TRUCE, ACT_LAY_LOW>>}

BribeInputs ==
    [op : {"bribe"},
     s : {MidGame(b, ts, c, i, d, h) :
             b \in BaseInspectors, ts \in TrustStates({0, 50, 60, 100}),
             c \in {0, MaxPassive}, i \in 0..IMMUNITY_GRANT, d \in DealsBefore,
             h \in HistorySamples},
     round_num : {1, MID_GAME_END, MID_GAME_END + 1, ROUNDS_PER_GAME},
     done : {FALSE}]

TruceInputs ==
    [op : {"truce"},
     s : {MidGame(b, ts, c, i, d, h) :
             b \in {CHOOSE b \in BaseInspectors : TRUE},
             ts \in TrustStates(0..100),
             c \in {0, MaxPassive}, i \in 0..IMMUNITY_GRANT, d \in DealsBefore,
             h \in HistorySamples},
     done : {FALSE}]

\* The smuggler's habits decide is tried on, and the history of n rounds
\* each makes.
Habits ==
    {<<ACT_SMUGGLE>>, <<ACT_LAY_LOW>>, <<ACT_SMUGGLE, ACT_LAY_LOW>>,
     <<ACT_LAY_LOW, ACT_SMUGGLE, ACT_SMUGGLE>>,
     <<ACT_BRIBE, ACT_SIGNAL_TRUCE, ACT_LAY_LOW, ACT_LAY_LOW, ACT_LAY_LOW>>}

HistoryOf(habit, n) == [i \in 1..n |-> habit[((i - 1) % Len(habit)) + 1]]

\* immunity_turns and pending_deal as decide can find them.
DealsAtDecide ==
    {<<0, "None">>, <<0, "safe">>, <<0, "trap">>, <<1, "safe">>, <<1, "trap">>,
     <<IMMUNITY_GRANT, "safe">>}

\* Scores the loops pass to decide: behind and ahead.
PlayerScores == {-30, 25}

\* decide in round r is entered with the r - 1 rounds before it recorded and
\* is passed the score and the last of them.
DecideInputs ==
    {[op |-> "decide", round_num |-> r, done |-> FALSE, player_score |-> sc,
      s |-> MidGame(b, ts, c, deal[1], deal[2], HistoryOf(habit, r - 1))] :
        r \in 1..ROUNDS_PER_GAME, b \in BaseInspectors,
        ts \in TrustStates({50, 60, 65, 73}), c \in {0, MaxPassive},
        deal \in DealsAtDecide, habit \in Habits, sc \in PlayerScores}

\* The last_player_action the loops pass to decide.
LastAction(s) ==
    IF s.history_smuggler = <<>> THEN None
    ELSE s.history_smuggler[Len(s.history_smuggler)]

PureInit ==
    /\ pure \in PayoffInputs \cup PatternInputs \cup TrustInputs \cup BribeInputs
                \cup TruceInputs \cup DecideInputs
    /\ game = NoGame /\ game2 = NoGame /\ tape = <<>> /\ inputs = <<>>
    /\ obs = <<>> /\ obs2 = <<>>
    /\ script = [action |-> None, amount |-> 1, draw |-> 0]
    /\ budget = 0 /\ lastFree = FALSE /\ reply = "none"

PureFrame ==
    UNCHANGED <<game, game2, tape, inputs, script, budget, lastFree, obs, obs2, reply>>

CalculatePayoff ==
    /\ pure.op = "payoff" /\ ~pure.done
    /\ pure' = [pure EXCEPT !.done = TRUE,
                            !.payoff = calculate_payoff(pure.player_action,
                                           pure.inspector_action,
                                           pure.bribe_accepted, pure.amount),
                            !.web_payoff = web_payoff(pure.player_action,
                                               pure.inspector_action,
                                               pure.amount)]
    /\ PureFrame

\* self._detect_pattern() on an inspector with the given smuggler history.
DetectPattern ==
    /\ pure.op = "pattern" /\ ~pure.done
    /\ pure' = [pure EXCEPT !.done = TRUE,
                            !.result = detect_pattern(
                                           [history_smuggler |-> pure.history])]
    /\ PureFrame

\* self._update_trust(last_player_action).
UpdateTrust ==
    /\ pure.op = "trust" /\ ~pure.done
    /\ \E out \in update_trust(pure.s, pure.last) :
          pure' = [op |-> "trust", s |-> pure.s, last |-> pure.last,
                   done |-> TRUE, out |-> out]
    /\ PureFrame

\* self.inspector.handle_bribe(round_num, score).
HandleBribe ==
    /\ pure.op = "bribe" /\ ~pure.done
    /\ \E r \in handle_bribe(pure.s, pure.round_num, 0) :
          pure' = [op |-> "bribe", s |-> pure.s, round_num |-> pure.round_num,
                   done |-> TRUE, out |-> r.s, accepted |-> r.accepted,
                   will_betray |-> r.will_betray]
    /\ PureFrame

\* self.inspector.handle_truce_signal().
HandleTruceSignal ==
    /\ pure.op = "truce" /\ ~pure.done
    /\ \E out \in handle_truce_signal(pure.s) :
          pure' = [op |-> "truce", s |-> pure.s, done |-> TRUE, out |-> out]
    /\ PureFrame

\* self.inspector.decide(round_num, score, last_player_action), with the
\* generator's stream followed through the call: draws is the sequence of
\* values the call consumed, in order.
Decide ==
    /\ pure.op = "decide" /\ ~pure.done
    /\ \E ret \in decide([pure.s EXCEPT !.rng = NewRng(TRUE, <<>>, pure.s.rng.free)],
                          pure.round_num, pure.player_score, LastAction(pure.s)) :
          pure' = [op |-> "decide", round_num |-> pure.round_num, done |-> TRUE,
                   player_score |-> pure.player_score,
                   s |-> pure.s, out |-> [ret.s EXCEPT !.rng = pure.s.rng],
                   action |-> ret.action,
                   is_bait |-> ret.is_bait, announced |-> ret.announced,
                   via |-> ret.via, draws |-> ret.s.rng.tape]
    /\ PureFrame

PureNext ==
    CalculatePayoff \/ DetectPattern \/ UpdateTrust \/ HandleBribe
    \/ HandleTruceSignal \/ Decide

PureSpec == PureInit /\ [][PureNext]_vars

(***************************************************************************)
(* Properties.  obs[i] is what round i did (Observe); a round's decide     *)
(* call is read from its pre_*, action, is_bait, via and post_* fields.    *)
(***************************************************************************)
Rounds == DOMAIN obs

\* handle_bribe accepted the bribe of round i and chose to honour it / to
\* betray it.
Honoured(i) == obs[i].bribe_accepted /\ ~obs[i].will_betray
Betrayed(i) == obs[i].bribe_accepted /\ obs[i].will_betray

PhaseDispatch == {"early", "mid", "late"}

\* C1: every decide call entered with immunity_turns > 0 returns
\* DontInspect with is_bait false and leaves immunity_turns exactly one
\* lower, whatever the round, the trust, the history and pending_deal.
C1_ImmunityForcesDontInspect ==
    \A i \in Rounds :
        obs[i].pre_immunity > 0 =>
            /\ obs[i].action = ACT_DONT_INSPECT
            /\ ~obs[i].is_bait
            /\ obs[i].via = "immunity"
            /\ obs[i].post_immunity = obs[i].pre_immunity - 1

\* A decide call entered with immunity 1 and a trap pending, in the late game.
C1_Witness ==
    \E i \in Rounds :
        /\ obs[i].pre_immunity = 1
        /\ obs[i].pre_pending = "trap"
        /\ obs[i].round > MID_GAME_END
        /\ obs[i].post_immunity = 0

\* C2 as stated: a decide call entered with pending_deal "trap" returns
\* (Inspect, is_bait true) and leaves pending_deal None.
C2_DecideSpringsTrap ==
    \A i \in Rounds :
        obs[i].pre_pending = "trap" =>
            /\ obs[i].action = ACT_INSPECT
            /\ obs[i].is_bait
            /\ obs[i].post_pending = "None"

\* C2 amended: a decide call entered with pending_deal "trap" does not act
\* on it: it returns what immunity or the phase logic gives and leaves
\* pending_deal "trap"; the round's override after decide forces the
\* inspector action to Inspect, flags the trap and sets pending_deal None.
C2_OverrideSpringsTrap ==
    \A i \in Rounds :
        obs[i].pre_pending = "trap" =>
            /\ obs[i].post_pending = "trap"
            /\ obs[i].via = IF obs[i].pre_immunity > 0 THEN "immunity"
                            ELSE IF obs[i].round <= EARLY_GAME_END THEN "early"
                            ELSE IF obs[i].round <= MID_GAME_END THEN "mid"
                            ELSE "late"
            /\ obs[i].inspector_action = ACT_INSPECT
            /\ obs[i].was_trap
            /\ obs[i].end_pending = "None"

\* A trap round whose decide call returned DontInspect out of the phase logic.
C2_Witness ==
    \E i \in Rounds :
        /\ obs[i].pre_pending = "trap"
        /\ obs[i].pre_immunity = 0
        /\ obs[i].action = ACT_DONT_INSPECT
        /\ ~obs[i].is_bait
        /\ obs[i].inspector_action = ACT_INSPECT
        /\ obs[i].end_pending = "None"

\* C3: after a bribe is accepted and honoured (immunity_turns 2, pending_deal
\* "safe"), the next two decide calls are forced by immunity to DontInspect
\* and leave immunity_turns 1 and then 0, and the third is not forced: it
\* goes through the phase dispatch.  Calls are counted from the last
\* honoured bribe.
C3_TwoForcedDecides ==
    \A i \in Rounds :
        Honoured(i) =>
            /\ obs[i].pre_immunity = IMMUNITY_GRANT
            /\ obs[i].pre_pending = "safe"
            /\ obs[i].via = "immunity"
            /\ obs[i].action = ACT_DONT_INSPECT
            /\ obs[i].post_immunity = 1
            /\ (i + 1 \in Rounds /\ ~Honoured(i + 1)) =>
                  /\ obs[i + 1].via = "immunity"
                  /\ obs[i + 1].action = ACT_DONT_INSPECT
                  /\ obs[i + 1].post_immunity = 0
            /\ (i + 2 \in Rounds /\ ~Honoured(i + 1) /\ ~Honoured(i + 2)) =>
                  /\ obs[i + 2].pre_immunity = 0
                  /\ obs[i + 2].via \in PhaseDispatch

\* An honoured bribe followed by two rounds without one, the third decide
\* call returning Inspect.
C3_Witness ==
    \E i \in Rounds :
        /\ Honoured(i)
        /\ i + 2 \in Rounds
        /\ ~Honoured(i + 1) /\ ~Honoured(i + 2)
        /\ obs[i + 1].post_immunity = 0
        /\ obs[i + 2].action = ACT_INSPECT

\* C4: trust_level is within [0, 1] in every reachable state, and at the
\* entry and the return of every decide call.
C4_TrustInUnitInterval ==
    /\ game.kind # "none" => game.inspector.trust_level \in 0..100
    /\ \A i \in Rounds :
          /\ obs[i].pre_trust \in 0..100
          /\ obs[i].post_trust \in 0..100

\* The upper clamp acted twice in a round: a truce signalled at trust 1
\* (handle_truce_signal) after a round of lying low (_update_trust).
C4_Witness ==
    \E i \in Rounds :
        /\ obs[i].player_action = ACT_SIGNAL_TRUCE
        /\ obs[i].last = ACT_LAY_LOW /\ obs[i].via # "immunity"
        /\ obs[i].pre_trust = 100 /\ obs[i].post_trust = 100
        /\ i > 1 /\ obs[i - 1].post_trust = 100

\* C5: in every round in which handle_bribe accepts the bribe and chooses
\* to betray it, the inspector action of the round and the one recorded in
\* the history is Inspect, the round is a trap, and pending_deal is None
\* when the round ends; in every phase and with immunity active too.
C5_BetrayedBribeInspects ==
    \A i \in Rounds :
        Betrayed(i) =>
            /\ obs[i].pre_pending = "trap"
            /\ obs[i].inspector_action = ACT_INSPECT
            /\ obs[i].was_trap
            /\ obs[i].end_pending = "None"
            /\ game.inspector.history_inspector[i] = ACT_INSPECT
            /\ game.kind = "web" => /\ game.history[i].inspector_action = ACT_INSPECT
                                    /\ game.history[i].was_trap

\* A bribe betrayed while the immunity of the round before was active: its
\* decide call returned DontInspect, the round recorded Inspect.
C5_Witness ==
    \E i \in Rounds :
        /\ Betrayed(i)
        /\ obs[i].pre_immunity = 1
        /\ obs[i].action = ACT_DONT_INSPECT
        /\ obs[i].inspector_action = ACT_INSPECT
        /\ game.inspector.history_traps_sprung > 0

\* C6 as stated: a bribe honoured in round r makes the inspector action of
\* round r and of round r+1 DontInspect, whatever the smuggler plays in r+1.
C6_HonouredCoversTwoRounds ==
    \A i \in Rounds :
        Honoured(i) =>
            /\ obs[i].inspector_action = ACT_DONT_INSPECT
            /\ i + 1 \in Rounds => obs[i + 1].inspector_action = ACT_DONT_INSPECT

\* C6 amended: a bribe honoured in round r makes the inspector action of
\* round r DontInspect, and that of round r+1 DontInspect unless round r+1
\* is itself a bribe that is accepted and betrayed, whose trap makes it
\* Inspect.
C6_HonouredCoversUnlessBetrayed ==
    \A i \in Rounds :
        Honoured(i) =>
            /\ obs[i].inspector_action = ACT_DONT_INSPECT
            /\ game.inspector.history_inspector[i] = ACT_DONT_INSPECT
            /\ i + 1 \in Rounds =>
                  /\ obs[i + 1].inspector_action =
                        IF Betrayed(i + 1) THEN ACT_INSPECT ELSE ACT_DONT_INSPECT
                  /\ game.inspector.history_inspector[i + 1] =
                        obs[i + 1].inspector_action

\* The round after an honoured bribe is a Smuggle, left uninspected.
C6_Witness ==
    \E i \in Rounds :
        /\ Honoured(i)
        /\ i + 1 \in Rounds
        /\ obs[i + 1].player_action = ACT_SMUGGLE
        /\ obs[i + 1].inspector_action = ACT_DONT_INSPECT
        /\ obs[i + 1].payoff = PAYOFF_SMUGGLE_DONT * obs[i + 1].amount

\* The decide call of round i returned the same in both games of the pair.
SameDecide(i) ==
    /\ obs2[i].action = obs[i].action
    /\ obs2[i].is_bait = obs[i].is_bait

\* C7 as stated: two games constructed from one seed and fed the same
\* smuggler actions draw the same traits, return the same from every decide
\* call (action, is_bait, announced intent), record the same history and
\* reach the same score.
C7_Deterministic ==
    game2.kind = "cli" =>
        /\ game2.inspector.greed = game.inspector.greed
        /\ game2.inspector.deceptiveness = game.inspector.deceptiveness
        /\ game2.inspector.adaptiveness = game.inspector.adaptiveness
        /\ \A i \in DOMAIN obs2 :
              SameDecide(i) /\ obs2[i].announced = obs[i].announced
        /\ game2.round_num = game.round_num =>
              /\ game2.inspector.history_smuggler = game.inspector.history_smuggler
              /\ game2.inspector.history_inspector = game.inspector.history_inspector
              /\ game2.inspector.history_traps_sprung =
                    game.inspector.history_traps_sprung
              /\ game2.history_payoffs = game.history_payoffs
              /\ game2.score = game.score

\* C8 as stated: for one seed and one sequence of smuggler actions, the
\* inspector's decisions (action, is_bait) and the round payoffs are the
\* same whether each call of the dialogue generator succeeds or fails.
C8_DialogueDoesNotSteer ==
    \A i \in DOMAIN obs2 :
        /\ SameDecide(i)
        /\ obs2[i].inspector_action = obs[i].inspector_action
        /\ obs2[i].payoff = obs[i].payoff

\* C9: for Smuggle and every quantity 1..5 calculate_payoff returns -5 times
\* the quantity when the inspector inspects and +10 times it otherwise,
\* with no bribe cost.
C9_SmugglePayoff ==
    (pure.op = "payoff" /\ pure.done /\ pure.player_action = ACT_SMUGGLE) =>
        pure.payoff = IF pure.inspector_action = ACT_INSPECT
                      THEN (0 - 5) * pure.amount
                      ELSE 10 * pure.amount

\* Smuggle of quantity 3, not inspected: +30.
C9_Witness ==
    /\ pure.op = "payoff" /\ pure.done
    /\ pure.player_action = ACT_SMUGGLE /\ pure.amount = 3
    /\ pure.inspector_action = ACT_DONT_INSPECT
    /\ pure.payoff = 30

\* C10: for LayLow and SignalTruce calculate_payoff returns 0 when
\* inspected and +1 otherwise, for Bribe -3 when inspected and -2
\* otherwise, whatever the quantity and the bribe_accepted flag.
C10_PassivePayoff ==
    (pure.op = "payoff" /\ pure.done /\ pure.player_action # ACT_SMUGGLE) =>
        pure.payoff =
            IF pure.player_action \in {ACT_LAY_LOW, ACT_SIGNAL_TRUCE}
            THEN (IF pure.inspector_action = ACT_INSPECT THEN 0 ELSE 1)
            ELSE (IF pure.inspector_action = ACT_INSPECT THEN 0 - 3 ELSE 0 - 2)

\* An accepted Bribe of quantity 5, inspected: -3.
C10_Witness ==
    /\ pure.op = "payoff" /\ pure.done
    /\ pure.player_action = ACT_BRIBE /\ pure.amount = 5
    /\ pure.bribe_accepted
    /\ pure.inspector_action = ACT_INSPECT
    /\ pure.payoff = 0 - 3

\* The pattern detector was applied to a history; its last k actions.
Detected == pure.op = "pattern" /\ pure.done
LastOf(k) == SubSeq(pure.history, Len(pure.history) - k + 1, Len(pure.history))
Passive == {ACT_LAY_LOW, ACT_SIGNAL_TRUCE}
SmuggleStreak ==
    Len(pure.history) >= 3 /\ \A i \in 1..3 : LastOf(3)[i] = ACT_SMUGGLE
PassiveStreak ==
    Len(pure.history) >= 3 /\ \A i \in 1..3 : LastOf(3)[i] \in Passive
Alternating ==
    Len(pure.history) >= 4 /\ \A i \in 1..3 : LastOf(4)[i] # LastOf(4)[i + 1]

\* C11: the pattern detector returns none for every history shorter than
\* 3, Inspect when the last three actions are all Smuggle, and DontInspect
\* when the last three are all LayLow or SignalTruce.
C11_StreakRules ==
    Detected =>
        /\ Len(pure.history) < 3 => pure.result = None
        /\ SmuggleStreak => pure.result = ACT_INSPECT
        /\ PassiveStreak => pure.result = ACT_DONT_INSPECT

\* A passive streak of LayLow, SignalTruce, LayLow after a Smuggle, which
\* alternates as well: DontInspect.
C11_Witness ==
    /\ Detected
    /\ pure.history = <<ACT_SMUGGLE, ACT_LAY_LOW, ACT_SIGNAL_TRUCE, ACT_LAY_LOW>>
    /\ pure.result = ACT_DONT_INSPECT

\* C12: for a history of at least 4 with no streak whose last four actions
\* have no two adjacent equal, the detector recommends Inspect when the
\* last action is LayLow or SignalTruce and DontInspect when it is Smuggle;
\* for a history that meets none of the three rules it returns none.
C12_AlternationRule ==
    (Detected /\ ~SmuggleStreak /\ ~PassiveStreak) =>
        /\ Alternating =>
              /\ LastOf(1)[1] \in Passive => pure.result = ACT_INSPECT
              /\ LastOf(1)[1] = ACT_SMUGGLE => pure.result = ACT_DONT_INSPECT
        /\ ~Alternating => pure.result = None

\* Five rounds ending Smuggle, LayLow, Smuggle, SignalTruce after two equal
\* actions: Inspect.
C12_Witness ==
    /\ Detected
    /\ pure.history = <<ACT_SMUGGLE, ACT_SMUGGLE, ACT_LAY_LOW, ACT_SMUGGLE,
                        ACT_SIGNAL_TRUCE>>
    /\ pure.result = ACT_INSPECT

\* C13: _update_trust with no last action leaves trust and the passive
\* counter as they are; Smuggle lowers trust by 0.10 (not below 0) and
\* zeroes the counter; LayLow and SignalTruce raise trust by 0.05 (not
\* above 1) and add 1 to the counter; Bribe raises trust by 0.02 (not above
\* 1) and zeroes the counter.
C13_UpdateTrustSteps ==
    (pure.op = "trust" /\ pure.done) =>
        LET before == pure.s
            after == pure.out
        IN  /\ pure.last = None =>
                  /\ after.trust_level = before.trust_level
                  /\ after.trust_err = before.trust_err
                  /\ after.consecutive_passive_rounds =
                        before.consecutive_passive_rounds
            /\ pure.last = ACT_SMUGGLE =>
                  /\ after.trust_level =
                        (IF before.trust_level < 10 THEN 0
                         ELSE before.trust_level - 10)
                  /\ after.consecutive_passive_rounds = 0
            /\ pure.last \in {ACT_LAY_LOW, ACT_SIGNAL_TRUCE} =>
                  /\ after.trust_level =
                        (IF before.trust_level > 95 THEN 100
                         ELSE before.trust_level + 5)
                  /\ after.consecutive_passive_rounds =
                        before.consecutive_passive_rounds + 1
            /\ pure.last = ACT_BRIBE =>
                  /\ after.trust_level =
                        (IF before.trust_level > 98 THEN 100
                         ELSE before.trust_level + 2)
                  /\ after.consecutive_passive_rounds = 0

\* A Smuggle noted at trust 0.05 after two passive rounds: trust 0, counter 0.
C13_Witness ==
    /\ pure.op = "trust" /\ pure.done
    /\ pure.last = ACT_SMUGGLE
    /\ pure.s.trust_level = 5 /\ pure.s.consecutive_passive_rounds = 2
    /\ pure.out.trust_level = 0 /\ pure.out.consecutive_passive_rounds = 0

\* C14: when handle_bribe does not accept, it returns accepted = false and
\* leaves every field of the inspector as it was but the bribes-offered
\* counter, which is one higher: trust, immunity, pending deal, passive
\* counter, bribes-accepted counter and both histories are unchanged.  The
\* generator, from which the acceptance was drawn, is not compared.
C14_RejectedBribeFrame ==
    (pure.op = "bribe" /\ pure.done /\ ~pure.accepted) =>
        /\ ~pure.will_betray
        /\ pure.out = [pure.s EXCEPT !.history_bribes_offered = @ + 1,
                                     !.rng = pure.out.rng]
        /\ pure.out.trust_level = pure.s.trust_level
        /\ pure.out.immunity_turns = pure.s.immunity_turns
        /\ pure.out.pending_deal = pure.s.pending_deal
        /\ pure.out.consecutive_passive_rounds = pure.s.consecutive_passive_rounds
        /\ pure.out.history_bribes_accepted = pure.s.history_bribes_accepted
        /\ pure.out.history_smuggler = pure.s.history_smuggler
        /\ pure.out.history_inspector = pure.s.history_inspector

\* A late-game bribe rejected while one turn of immunity and a "safe" deal
\* remain from an earlier one.
C14_Witness ==
    /\ pure.op = "bribe" /\ pure.done /\ ~pure.accepted
    /\ pure.round_num > MID_GAME_END
    /\ pure.s.immunity_turns = 1 /\ pure.s.pending_deal = "safe"
    /\ pure.s.history_smuggler # <<>>
    /\ pure.out.immunity_turns = 1 /\ pure.out.pending_deal = "safe"
    /\ pure.out.history_bribes_offered = pure.s.history_bribes_offered + 1

\* C15: handle_truce_signal raises trust by 0.10 (not above 1) when trust
\* was above 0.6 before the call and leaves trust as it was otherwise, and
\* either way leaves immunity, the pending deal, the passive counter and
\* both histories unchanged.
C15_TruceFrame ==
    (pure.op = "truce" /\ pure.done) =>
        /\ TrustGt(pure.s, 60) =>
              pure.out.trust_level = (IF pure.s.trust_level > 90 THEN 100
                                      ELSE pure.s.trust_level + 10)
        /\ ~TrustGt(pure.s, 60) =>
              /\ pure.out.trust_level = pure.s.trust_level
              /\ pure.out.trust_err = pure.s.trust_err
        /\ pure.out.immunity_turns = pure.s.immunity_turns
        /\ pure.out.pending_deal = pure.s.pending_deal
        /\ pure.out.consecutive_passive_rounds = pure.s.consecutive_passive_rounds
        /\ pure.out.history_smuggler = pure.s.history_smuggler
        /\ pure.out.history_inspector = pure.s.history_inspector

\* A truce signalled at trust exactly 0.6, during immunity: nothing moves.
C15_Witness ==
    /\ pure.op = "truce" /\ pure.done
    /\ pure.s.trust_level = 60 /\ pure.s.trust_err = 0
    /\ pure.s.immunity_turns = 1 /\ pure.s.pending_deal = "safe"
    /\ pure.out.trust_level = 60
    /\ pure.out.history_truces_signaled = pure.s.history_truces_signaled + 1

\* C16: a trap deal is consumed in the round that made it: when a round
\* has ended (after record_round) pending_deal is never "trap", so no
\* round begins with one left over.
C16_TrapConsumedInRound ==
    /\ game.kind # "none" => game.inspector.pending_deal # "trap"
    /\ \A i \in Rounds :
          /\ obs[i].end_pending # "trap"
          /\ obs[i].pre_pending = "trap" => Betrayed(i)

\* A round that made a trap deal, decided under it and ended without it.
C16_Witness ==
    /\ Rounds # {}
    /\ obs[Len(obs)].pre_pending = "trap"
    /\ obs[Len(obs)].post_pending = "trap"
    /\ game.inspector.pending_deal = "None"
    /\ game.inspector.history_traps_sprung > 0

\* C17: immunity_turns is never negative and never above the grant of 2:
\* an honoured bribe sets it to 2 whatever was left, and only decide lowers
\* it, by exactly 1 and only while it is positive.
C17_ImmunityBounds ==
    /\ game.kind # "none" =>
          /\ game.inspector.immunity_turns \in 0..IMMUNITY_GRANT
          /\ Rounds # {} =>
                game.inspector.immunity_turns = obs[Len(obs)].post_immunity
    /\ \A i \in Rounds :
          /\ obs[i].pre_immunity \in 0..IMMUNITY_GRANT
          /\ obs[i].post_immunity =
                (IF obs[i].pre_immunity > 0 THEN obs[i].pre_immunity - 1 ELSE 0)
          /\ obs[i].pre_immunity =
                (IF Honoured(i) THEN IMMUNITY_GRANT
                 ELSE IF i = 1 THEN 0
                 ELSE obs[i - 1].post_immunity)

\* A bribe honoured while one turn was left of the one honoured the round
\* before: 2 turns, not 3.
C17_Witness ==
    \E i \in Rounds :
        /\ i > 1 /\ Honoured(i - 1) /\ obs[i - 1].post_immunity = 1
        /\ Honoured(i)
        /\ obs[i].pre_immunity = IMMUNITY_GRANT
        /\ obs[i].post_immunity = 1

\* C18: decide is total: in every round 1..20, for every last smuggler
\* action or none, every engine state and every outcome of the draws, it
\* returns a triple whose action is Inspect or DontInspect, never
\* AcceptBribe or SetTrap.
C18_DecideTotal ==
    /\ (pure.op = "decide" /\ ~pure.done) =>
          LET rets == decide(pure.s, pure.round_num, 0, LastAction(pure.s))
          IN  /\ rets # {}
              /\ \A ret \in rets :
                    /\ ret.action \in {ACT_INSPECT, ACT_DONT_INSPECT}
                    /\ ret.is_bait \in BOOLEAN
    /\ (pure.op = "decide" /\ pure.done) =>
          /\ pure.action \in {ACT_INSPECT, ACT_DONT_INSPECT}
          /\ pure.action \notin {ACT_ACCEPT_BRIBE, ACT_SET_TRAP}
          /\ pure.is_bait \in BOOLEAN

\* The last round after nineteen passive ones: the detected pattern's
\* DontInspect is returned.
C18_Witness ==
    /\ pure.op = "decide" /\ pure.done
    /\ pure.round_num = ROUNDS_PER_GAME
    /\ LastAction(pure.s) = ACT_LAY_LOW
    /\ pure.via = "late"
    /\ pure.announced = "I see what you're doing."
    /\ pure.action = ACT_DONT_INSPECT

\* C19: a game lasts exactly 20 rounds: every played round raises the
\* round number by exactly 1, the round number never exceeds 20, and a
\* move posted once 20 rounds are played is answered 'Game Over' and leaves
\* the round number, the score, the history and the inspector as they were.
C19_TwentyRounds ==
    [][ /\ game.round_num \in 0..ROUNDS_PER_GAME
        /\ game'.round_num \in 0..ROUNDS_PER_GAME
        /\ obs' # obs =>
              /\ game'.round_num = game.round_num + 1
              /\ obs' = Append(obs, obs'[Len(obs')])
              /\ obs'[Len(obs')].round = game'.round_num
        /\ obs' = obs => game' = game
        /\ game.round_num >= ROUNDS_PER_GAME =>
              /\ game' = game /\ obs' = obs
              /\ game.kind = "web" => reply' = "Game Over"
      ]_vars

\* A web game after its twentieth round, a further move answered 'Game Over'.
C19_Witness ==
    /\ game.kind = "web"
    /\ game.round_num = ROUNDS_PER_GAME
    /\ Len(obs) = ROUNDS_PER_GAME
    /\ Len(game.history) = ROUNDS_PER_GAME
    /\ reply = "Game Over"

\* C20: record_round runs exactly once per round, after the override and
\* before the next round's decide: when decide is called for round r each
\* history holds r - 1 entries, the inspector entry of every round is the
\* action after the override, and the last action passed to decide is the
\* last recorded smuggler action (none in round 1).
C20_RecordedOncePerRound ==
    /\ game.kind # "none" =>
          /\ Len(game.inspector.history_smuggler) = Len(obs)
          /\ Len(game.inspector.history_inspector) = Len(obs)
          /\ game.last_player_action =
                (IF obs = <<>> THEN None ELSE obs[Len(obs)].player_action)
    /\ LET hs == game.inspector.history_smuggler
           hi == game.inspector.history_inspector
       IN  \A i \in Rounds :
              LET o == obs[i]
              IN  /\ o.round = i
                  /\ o.pre_hist = i - 1
                  /\ o.pre_hist_inspector = i - 1
                  /\ hs[i] = o.player_action
                  /\ hi[i] = o.inspector_action
                  /\ o.last = (IF i = 1 THEN None ELSE hs[i - 1])

\* A round whose decide returned DontInspect and whose record, read by the
\* rounds after it, is the override's Inspect.
C20_Witness ==
    \E i \in Rounds :
        /\ i + 1 \in Rounds
        /\ obs[i].action = ACT_DONT_INSPECT
        /\ obs[i].inspector_action = ACT_INSPECT
        /\ game.inspector.history_inspector[i] = ACT_INSPECT
        /\ obs[i + 1].pre_hist_inspector = i
        /\ obs[i + 1].last = obs[i].player_action

\* The values pending_deal takes.
PendingDeals == {"None", "trap", "safe"}

\* C21: pending_deal is never "accepted" when decide is entered, so the
\* branch of decide that handles it never returns; handle_bribe leaves
\* "trap" or "safe" behind every accepted bribe, and pending_deal only ever
\* holds None, "trap" or "safe".
C21_LegacyBranchUnreachable ==
    /\ game.kind # "none" => game.inspector.pending_deal \in PendingDeals
    /\ \A i \in Rounds :
          /\ obs[i].pre_pending \in PendingDeals
          /\ obs[i].post_pending \in PendingDeals
          /\ obs[i].end_pending \in PendingDeals
          /\ obs[i].via # "legacy"
          /\ Honoured(i) => obs[i].pre_pending = "safe"
          /\ Betrayed(i) => obs[i].pre_pending = "trap"

\* An honoured bribe whose immunity has run out: decide is entered without
\* immunity, finds "safe" pending and goes on to the phase dispatch.
C21_Witness ==
    \E i \in Rounds :
        /\ i > 2 /\ Honoured(i - 2)
        /\ obs[i].pre_immunity = 0
        /\ obs[i].pre_pending = "safe"
        /\ obs[i].via \in PhaseDispatch

\* A finished decide call of PureSpec.
Decided == pure.op = "decide" /\ pure.done

\* C22: a decide call entered with immunity_turns > 0 returns before
\* _update_trust, _set_mood and the phase dispatch: whatever the last
\* smuggler action, it lowers immunity_turns by one and changes nothing
\* else (trust_level, consecutive_passive_rounds, pending_deal, mood and
\* history_traps_set are as before), and it consumes no random draw.
C22_ImmuneDecideFrame ==
    Decided /\ pure.s.immunity_turns > 0 =>
        /\ pure.via = "immunity"
        /\ pure.draws = <<>>
        /\ pure.out.immunity_turns = pure.s.immunity_turns - 1
        /\ pure.out.trust_level = pure.s.trust_level
        /\ pure.out.trust_err = pure.s.trust_err
        /\ pure.out.consecutive_passive_rounds = pure.s.consecutive_passive_rounds
        /\ pure.out.pending_deal = pure.s.pending_deal
        /\ pure.out.mood = pure.s.mood
        /\ pure.out.history_traps_set = pure.s.history_traps_set
        /\ pure.out = [pure.s EXCEPT !.immunity_turns = @ - 1]

\* An immune decide in the late phase after a Smuggle, at a trust a
\* non-immune call would have lowered and with a passive count it would
\* have reset.
C22_Witness ==
    /\ Decided
    /\ pure.round_num = 16
    /\ pure.s.immunity_turns = IMMUNITY_GRANT
    /\ LastAction(pure.s) = ACT_SMUGGLE
    /\ pure.s.trust_level = 65 /\ pure.s.consecutive_passive_rounds = MaxPassive
    /\ pure.out.trust_level = 65
    /\ pure.out.consecutive_passive_rounds = MaxPassive
    /\ pure.out.immunity_turns = 1
    /\ pure.draws = <<>>

\* The trust fields and passive counter of two inspectors agree.
SameTrust(a, b) ==
    /\ a.trust_level = b.trust_level /\ a.trust_err = b.trust_err
    /\ a.consecutive_passive_rounds = b.consecutive_passive_rounds

\* C23: a decide call entered without immunity applies _update_trust for
\* the last smuggler action and then picks its phase from the round number
\* alone: the early logic returns in rounds 1..6, the mid logic in rounds
\* 7..14 and the late logic in rounds 15..20, whatever the trust, the
\* score, the history and the pending deal; the returned inspector carries
\* the updated trust, and the mid logic's collusion test reads it.
C23_PhaseByRound ==
    Decided /\ pure.s.immunity_turns = 0 =>
        /\ pure.via = (IF pure.round_num <= 6 THEN "early"
                       ELSE IF pure.round_num <= 14 THEN "mid" ELSE "late")
        /\ \E s1 \in update_trust(pure.s, LastAction(pure.s)) :
              SameTrust(pure.out, s1)
        /\ pure.announced = "Let's keep this arrangement going." =>
              TrustGt(pure.out, 65)

\* Round 7 decided by the mid logic on the trust the call itself raised:
\* entered at 0.65 exactly, where the collusion test fails, it returns the
\* collusion outcome at 0.70, with a trap deal pending and the smuggler
\* ahead.
C23_Witness ==
    /\ Decided
    /\ pure.round_num = 7 /\ pure.via = "mid"
    /\ pure.s.immunity_turns = 0 /\ pure.s.pending_deal = "trap"
    /\ pure.player_score > 0
    /\ pure.s.trust_level = 65 /\ pure.s.trust_err = 0
    /\ LastAction(pure.s) = ACT_LAY_LOW
    /\ pure.out.trust_level = 70
    /\ pure.announced = "Let's keep this arrangement going."

\* C24: in rounds 1, 2 and 3 decide never returns is_bait true; the early
\* phase's bait, Inspect with is_bait true announced as going easy, is
\* returned only in rounds 4, 5 and 6, and it is the only bait of the
\* early phase.
C24_NoBaitBeforeRoundFour ==
    Decided =>
        /\ pure.round_num <= 3 => ~pure.is_bait
        /\ pure.announced = "I might go easy on you..." =>
              /\ pure.round_num \in 4..6
              /\ pure.via = "early"
              /\ pure.action = ACT_INSPECT /\ pure.is_bait
        /\ pure.via = "early" /\ pure.is_bait =>
              pure.announced = "I might go easy on you..."

\* The bait in the first round that can have it, on its second early draw
\* falling below 0.15.
C24_Witness ==
    /\ Decided
    /\ pure.round_num = 4 /\ pure.via = "early"
    /\ pure.action = ACT_INSPECT /\ pure.is_bait
    /\ pure.announced = "I might go easy on you..."
    /\ Len(pure.draws) >= 2
    /\ pure.draws[Len(pure.draws)] = 5

\* A finished decide call that went through the mid logic.
MidDecided == Decided /\ pure.via = "mid"

\* The draws of a decide call that its phase logic consumed: all but the
\* one _set_mood makes when the smuggle frequency is at most 0.5 and the
\* updated trust is above 0.7.
PhaseDraws ==
    IF ~FreqGt(get_smuggle_frequency(pure.s), 50) /\ TrustGt(pure.out, 70)
    THEN Tail(pure.draws) ELSE pure.draws

\* The collusion test of the mid logic on the updated trust.
Collusive == TrustGt(pure.out, 65) /\ pure.out.consecutive_passive_rounds >= 2

\* The mid logic returned from its collusion block (reciprocate or betray).
Colluded ==
    pure.announced \in {"Let's keep this arrangement going.",
                        "I appreciate the cooperation..."}

\* The draws left for the tail of the mid logic: all when the collusion
\* test failed, all but the reciprocate and betray draws otherwise.
TailDraws == IF Collusive THEN Tail(Tail(PhaseDraws)) ELSE PhaseDraws

\* inspect_prob of the mid logic, in ten-thousandths.
MidInspectProb ==
    LET f == get_smuggle_frequency(pure.s)
    IN  IF FreqGt(f, 45) THEN 7500 + pure.s.adaptiveness \div 10
        ELSE IF FreqLt(f, 20) THEN 3500 - pure.s.adaptiveness \div 10
        ELSE 5500

\* The reciprocate draw is the first and the betray draw the second of a
\* collusive mid call.
CollusionOrder ==
    MidDecided /\ Collusive =>
        /\ Len(PhaseDraws) >= 1
        /\ Below(PhaseDraws[1], (pure.out.trust_level - 30) * 100) <=>
              pure.announced = "Let's keep this arrangement going."
        /\ pure.announced = "Let's keep this arrangement going." =>
              Len(PhaseDraws) = 1
        /\ pure.announced # "Let's keep this arrangement going." =>
              /\ Len(PhaseDraws) >= 2
              /\ Below(PhaseDraws[2], pure.s.deceptiveness) <=>
                    pure.announced = "I appreciate the cooperation..."
              /\ pure.announced = "I appreciate the cooperation..." =>
                    Len(PhaseDraws) = 2

\* C25 as claimed: the mid logic consumes its draws in the order
\* reciprocate, betray, inspection roll, bait override, so the roll's draw
\* is the first after the collusion block and the bait draw follows it.
C25_RollBeforeBait ==
    /\ CollusionOrder
    /\ MidDecided /\ ~Colluded =>
          /\ Len(TailDraws) >= 2
          /\ pure.announced = "None" =>
                (pure.action = ACT_INSPECT <=> Below(TailDraws[1], MidInspectProb))
          /\ pure.announced # "None" =>
                Below(TailDraws[2], (pure.s.deceptiveness * 4) \div 10)

\* C25: the mid logic consumes its draws in the order reciprocate, betray,
\* bait override, inspection roll: in a collusive call the first draw is
\* compared with trust - 0.3 and, failing that, the second with
\* deceptiveness; the next draw is compared with 0.4 * deceptiveness and,
\* when below it, one more draw picks the bait or the bluff; only when the
\* bait draw fails is the following draw compared with inspect_prob.
C25_BaitBeforeRoll ==
    /\ CollusionOrder
    /\ MidDecided /\ ~Colluded =>
          /\ Len(TailDraws) = 2
          /\ pure.announced # "None" <=>
                Below(TailDraws[1], (pure.s.deceptiveness * 4) \div 10)
          /\ pure.announced = "Taking it easy this round." <=>
                /\ Below(TailDraws[1], (pure.s.deceptiveness * 4) \div 10)
                /\ Below(TailDraws[2], 5000)
          /\ pure.announced = "None" =>
                (pure.action = ACT_INSPECT <=> Below(TailDraws[2], MidInspectProb))

\* A collusive mid call that failed the reciprocate and betray draws and the
\* bait draw and inspected on its fourth phase draw, after a third draw
\* that is above inspect_prob.
C25_Witness ==
    /\ MidDecided /\ Collusive /\ ~Colluded
    /\ Len(PhaseDraws) = 4
    /\ TailDraws = <<95, 5>>
    /\ pure.announced = "None" /\ pure.action = ACT_INSPECT

\* C26: the mid logic returns a collusion outcome, DontInspect announced as
\* keeping the arrangement going or Inspect with is_bait true announced as
\* appreciating the cooperation, only when the trust this call updated is
\* above 0.65 and the updated passive count is at least 2; history_traps_set
\* grows, by one, in the betray outcome and in no other return of decide.
C26_CollusionGuard ==
    Decided =>
        /\ Colluded => MidDecided /\ Collusive
        /\ pure.announced = "Let's keep this arrangement going." =>
              pure.action = ACT_DONT_INSPECT /\ ~pure.is_bait
        /\ pure.announced = "I appreciate the cooperation..." =>
              pure.action = ACT_INSPECT /\ pure.is_bait
        /\ pure.out.history_traps_set =
              pure.s.history_traps_set +
              (IF pure.announced = "I appreciate the cooperation..." THEN 1 ELSE 0)

\* The betray outcome at a trust just past the threshold: entered at 0.60
\* after two passive rounds, raised to 0.65 with the rounding error
\* upwards, reciprocation failed, trap counted.
C26_Witness ==
    /\ MidDecided
    /\ pure.s.trust_level = 60 /\ pure.out.trust_level = 65
    /\ pure.out.trust_err = 1
    /\ pure.out.consecutive_passive_rounds = MaxPassive + 1
    /\ pure.announced = "I appreciate the cooperation..."
    /\ pure.out.history_traps_set = pure.s.history_traps_set + 1

\* A finished decide call that went through the late logic.
LateDecided == Decided /\ pure.via = "late"

\* The high-trust end-game test of the late logic on the updated trust.
HighTrustEndGame == TrustGt(pure.out, 75) /\ pure.round_num >= 18

\* C27: a late-phase decide for which the pattern detector returns none,
\* the high-trust end-game test fails and the smuggle frequency is above
\* 0.55 returns Inspect with is_bait false whatever the draws.
C27_AggressiveAlwaysInspected ==
    /\ LateDecided
    /\ detect_pattern(pure.s) = None
    /\ ~HighTrustEndGame
    /\ FreqGt(get_smuggle_frequency(pure.s), 55)
    => /\ pure.action = ACT_INSPECT /\ ~pure.is_bait
       /\ pure.announced = "Too aggressive. Predictable."

\* Round 19 after six rounds of LayLow, Smuggle, Smuggle: two smuggles in
\* three, no streak, no alternation, trust lowered by the last Smuggle.
C27_Witness ==
    /\ LateDecided
    /\ pure.round_num = 19
    /\ detect_pattern(pure.s) = None
    /\ get_smuggle_frequency(pure.s) = [num |-> 12, den |-> 18]
    /\ LastAction(pure.s) = ACT_SMUGGLE
    /\ pure.s.trust_level = 73 /\ pure.out.trust_level = 63
    /\ pure.action = ACT_INSPECT /\ ~pure.is_bait
    /\ pure.draws = <<>>

\* C28: the late logic consults the pattern detector first: when the
\* detector recommends an action for the recorded history, the first draw
\* of the late logic is compared with 0.7 and, below it, decide returns that
\* action with is_bait false, announced as seeing what the player is doing;
\* this result is returned in no other case, so never when the detector
\* returns none.
C28_PatternExploitFirst ==
    Decided =>
        /\ pure.announced = "I see what you're doing." =>
              /\ pure.via = "late"
              /\ detect_pattern(pure.s) # None
              /\ pure.action = detect_pattern(pure.s)
              /\ ~pure.is_bait
              /\ Len(PhaseDraws) = 1
        /\ pure.via = "late" /\ detect_pattern(pure.s) # None =>
              /\ Len(PhaseDraws) >= 1
              /\ Below(PhaseDraws[1], 7000) <=>
                    pure.announced = "I see what you're doing."

\* A passive streak exploited with DontInspect in a round where the
\* high-trust and final-rounds steps would otherwise apply.
C28_Witness ==
    /\ LateDecided
    /\ pure.round_num = 19
    /\ detect_pattern(pure.s) = ACT_DONT_INSPECT
    /\ HighTrustEndGame
    /\ pure.announced = "I see what you're doing."
    /\ pure.action = ACT_DONT_INSPECT /\ ~pure.is_bait

\* The draws of a late call left after the pattern draw (made when the
\* detector recommends an action) and the high-trust draw (made when the
\* pattern step did not return and the high-trust test holds).
ExploitDraws ==
    LET afterPattern == IF detect_pattern(pure.s) # None THEN Tail(PhaseDraws)
                        ELSE PhaseDraws
    IN  IF HighTrustEndGame THEN Tail(afterPattern) ELSE afterPattern

\* The late call returned from its pattern or high-trust step.
ReturnedEarly ==
    pure.announced \in {"I see what you're doing.", "We've built something here."}

\* C29: in rounds 19 and 20 the final-rounds step, a draw against 0.7 that
\* returns Inspect announced as not letting the player win, is reached only
\* with a smuggle frequency within [0.2, 0.55]: above 0.55 the extreme step
\* returns Inspect first, below 0.2 it returns the bait or DontInspect
\* first; so below 0.2 an Inspect with is_bait false comes only from the
\* pattern exploit.
C29_FinalRoundsAfterExtremes ==
    LET f == get_smuggle_frequency(pure.s)
    IN  Decided =>
        /\ pure.announced = "Can't let you win now." =>
              /\ pure.via = "late" /\ pure.round_num >= 19
              /\ ~FreqGt(f, 55) /\ ~FreqLt(f, 20)
              /\ pure.action = ACT_INSPECT /\ ~pure.is_bait
        /\ pure.via = "late" /\ ~ReturnedEarly =>
              /\ FreqGt(f, 55) =>
                    /\ pure.announced = "Too aggressive. Predictable."
                    /\ ExploitDraws = <<>>
              /\ FreqLt(f, 20) =>
                    /\ Len(ExploitDraws) = 1
                    /\ IF Below(ExploitDraws[1], pure.s.deceptiveness)
                       THEN /\ pure.announced = "Safe players are boring."
                            /\ pure.action = ACT_INSPECT /\ pure.is_bait
                       ELSE /\ pure.announced = "None"
                            /\ pure.action = ACT_DONT_INSPECT /\ ~pure.is_bait
              /\ ~FreqGt(f, 55) /\ ~FreqLt(f, 20) /\ pure.round_num >= 19 =>
                    /\ Len(ExploitDraws) >= 1
                    /\ Below(ExploitDraws[1], 7000) <=>
                          pure.announced = "Can't let you win now."
        /\ pure.via = "late" /\ FreqLt(f, 20)
           /\ pure.action = ACT_INSPECT /\ ~pure.is_bait =>
              pure.announced = "I see what you're doing."

\* Round 20 of a smuggler alternating Smuggle and LayLow: the pattern draw
\* failed, the frequency is 10/19 and the final-rounds draw returned Inspect.
C29_Witness ==
    /\ LateDecided
    /\ pure.round_num = 20
    /\ get_smuggle_frequency(pure.s) = [num |-> 10, den |-> 19]
    /\ detect_pattern(pure.s) # None
    /\ Len(ExploitDraws) = 1
    /\ pure.announced = "Can't let you win now."
    /\ pure.action = ACT_INSPECT /\ ~pure.is_bait

\* C30: in both loops, a round whose bribe was accepted and honoured records
\* DontInspect for the inspector, is not a trap and pays -BRIBE_COST + 1 =
\* -2; every round in which Bribe is played pays -3 or -2, whatever the
\* amount posted with it.
C30_BribePayoffs ==
    \A i \in Rounds :
        /\ Honoured(i) =>
              /\ obs[i].player_action = ACT_BRIBE
              /\ obs[i].inspector_action = ACT_DONT_INSPECT
              /\ game.inspector.history_inspector[i] = ACT_DONT_INSPECT
              /\ ~obs[i].was_trap
              /\ obs[i].payoff = 1 - BRIBE_COST
              /\ obs[i].payoff = -2
        /\ obs[i].player_action = ACT_BRIBE =>
              /\ obs[i].payoff \in {-3, -2}
              /\ obs[i].payoff = (IF obs[i].inspector_action = ACT_INSPECT
                                  THEN -3 ELSE -2)

\* A game with an honoured bribe paying -2 and a betrayed one paying -3.
C30_Witness ==
    /\ \E i \in Rounds :
          /\ Honoured(i) /\ obs[i].payoff = -2
          /\ obs[i].inspector_action = ACT_DONT_INSPECT
    /\ \E j \in Rounds :
          /\ Betrayed(j) /\ obs[j].payoff = -3
          /\ obs[j].inspector_action = ACT_INSPECT

\* C31: every return of decide with is_bait true has action Inspect: for
\* no engine state and no outcome of the draws does decide return
\* DontInspect with is_bait true; the bluff of the mid logic, DontInspect
\* announced as a certain catch, is returned with is_bait false.
C31_BaitMeansInspect ==
    Decided =>
        /\ pure.is_bait => pure.action = ACT_INSPECT
        /\ pure.action = ACT_DONT_INSPECT => ~pure.is_bait
        /\ pure.announced = "You're definitely getting caught." =>
              /\ pure.via = "mid"
              /\ pure.action = ACT_DONT_INSPECT /\ ~pure.is_bait

\* The bluff returned: the bait draw succeeded and the coin came up high.
C31_Witness ==
    /\ MidDecided
    /\ pure.announced = "You're definitely getting caught."
    /\ pure.action = ACT_DONT_INSPECT /\ ~pure.is_bait
    /\ TailDraws = <<5, 95>>

\* C32: a round recorded with was_trap true records Inspect for the
\* inspector and pays less than nothing: it is a Smuggle decided with a
\* bait, paying -5 times the amount, or a Bribe accepted and betrayed,
\* paying -3; a LayLow or SignalTruce round is never a trap.
C32_TrapRounds ==
    \A i \in Rounds :
        obs[i].was_trap =>
            /\ obs[i].inspector_action = ACT_INSPECT
            /\ game.inspector.history_inspector[i] = ACT_INSPECT
            /\ obs[i].payoff < 0
            /\ obs[i].player_action \notin {ACT_LAY_LOW, ACT_SIGNAL_TRUCE}
            /\ \/ /\ obs[i].player_action = ACT_SMUGGLE
                  /\ obs[i].is_bait /\ obs[i].action = ACT_INSPECT
                  /\ obs[i].payoff = -5 * obs[i].amount
               \/ /\ obs[i].player_action = ACT_BRIBE
                  /\ Betrayed(i)
                  /\ obs[i].payoff = -3

\* A game with a Smuggle of three caught by a bait for -15 and a betrayed
\* Bribe.
C32_Witness ==
    /\ \E i \in Rounds :
          /\ obs[i].was_trap /\ obs[i].player_action = ACT_SMUGGLE
          /\ obs[i].amount = 3 /\ obs[i].payoff = -15
    /\ \E j \in Rounds :
          /\ obs[j].was_trap /\ obs[j].player_action = ACT_BRIBE
          /\ obs[j].payoff = -3

\* trust_level after _update_trust for a last action, in hundredths.
TrustAfter(t, last) ==
    IF last = ACT_SMUGGLE THEN Max(0, t - 10)
    ELSE IF last \in {ACT_LAY_LOW, ACT_SIGNAL_TRUCE} THEN Min(100, t + 5)
    ELSE IF last = ACT_BRIBE THEN Min(100, t + 2)
    ELSE t

\* consecutive_passive_rounds after _update_trust for a last action.
PassiveAfter(c, last) ==
    IF last \in {ACT_SMUGGLE, ACT_BRIBE} THEN 0
    ELSE IF last \in {ACT_LAY_LOW, ACT_SIGNAL_TRUCE} THEN c + 1
    ELSE c

\* C33: the action of round i - 1 reaches _update_trust only through the
\* decide of round i, once, and not at all when that decide returns on
\* immunity: an immune decide leaves trust_level and
\* consecutive_passive_rounds as they were, a non-immune one moves them by
\* the step of the last action, and nothing else moves the passive count.
\* So when a bribe is honoured in round r, the decides of rounds r and r + 1
\* are immune and neither the action of round r - 1 nor the Bribe of round r
\* is ever applied.
C33_TrustAppliedOnce ==
    \A i \in Rounds :
        LET o == obs[i]
        IN  /\ IF i = 1
               THEN o.last = None /\ o.pre_passive = 0
               ELSE LET p == obs[i - 1]
                    IN  /\ o.last = p.player_action
                        /\ o.pre_passive = p.post_passive
                        /\ o.player_action # ACT_SIGNAL_TRUCE =>
                              o.pre_trust = p.post_trust
                        /\ Honoured(i - 1) => o.pre_immunity > 0
            /\ IF o.pre_immunity > 0
               THEN /\ o.post_trust = o.pre_trust
                    /\ o.post_passive = o.pre_passive
               ELSE /\ o.post_trust = TrustAfter(o.pre_trust, o.last)
                    /\ o.post_passive = PassiveAfter(o.pre_passive, o.last)
            /\ Honoured(i) => o.pre_immunity > 0
            /\ i = Len(obs) =>
                  /\ game.inspector.trust_level = o.post_trust
                  /\ game.inspector.consecutive_passive_rounds = o.post_passive

\* Passive rounds around a bribe honoured in round r: in round r + 2,
\* whose decide is the first after the immunity, trust and the passive
\* count stand one step above their values at the end of round r - 1; the
\* LayLow of round r - 1 and the Bribe of round r were never applied.
C33_Witness ==
    \E i \in Rounds :
        /\ i > 2 /\ i + 2 \in Rounds
        /\ obs[i - 1].player_action = ACT_LAY_LOW
        /\ obs[i - 1].pre_immunity = 0
        /\ Honoured(i)
        /\ obs[i + 1].player_action = ACT_LAY_LOW
        /\ obs[i + 1].post_trust = obs[i - 1].post_trust
        /\ obs[i + 1].post_passive = obs[i - 1].post_passive
        /\ obs[i + 2].pre_immunity = 0
        /\ obs[i + 2].post_trust = obs[i - 1].post_trust + 5
        /\ obs[i + 2].post_passive = obs[i - 1].post_passive + 1

\* C34: when a bribe is accepted and honoured in round r < 20 and the
\* smuggler plays Smuggle in round r + 1, round r + 1 records DontInspect,
\* is not a trap and pays +10 times the amount smuggled.
C34_SmuggleUnderImmunity ==
    \A i \in Rounds :
        i > 1 /\ Honoured(i - 1) /\ obs[i].player_action = ACT_SMUGGLE =>
            /\ obs[i].pre_immunity = 1 /\ obs[i].via = "immunity"
            /\ obs[i].inspector_action = ACT_DONT_INSPECT
            /\ game.inspector.history_inspector[i] = ACT_DONT_INSPECT
            /\ ~obs[i].was_trap
            /\ obs[i].payoff = 10 * obs[i].amount

\* Five units smuggled for +50 in the round after an honoured bribe.
C34_Witness ==
    \E i \in Rounds :
        /\ i > 1 /\ Honoured(i - 1)
        /\ obs[i].player_action = ACT_SMUGGLE
        /\ obs[i].amount = 5
        /\ obs[i].inspector_action = ACT_DONT_INSPECT
        /\ obs[i].payoff = 50

\* C35: the streak rules of the pattern detector come before the
\* alternation rule: a history whose last four actions alternate and whose
\* last three are all LayLow or SignalTruce yields DontInspect, not the
\* Inspect of the alternation rule; an alternating last four ending in
\* Bribe yields DontInspect; and the result is always none, Inspect or
\* DontInspect.
C35_StreaksBeforeAlternation ==
    Detected =>
        /\ Alternating /\ PassiveStreak => pure.result = ACT_DONT_INSPECT
        /\ Alternating /\ LastOf(1)[1] = ACT_BRIBE =>
              pure.result = ACT_DONT_INSPECT
        /\ pure.result \in {None, ACT_INSPECT, ACT_DONT_INSPECT}

\* Two Smuggles, then LayLow, SignalTruce, LayLow: the last four alternate
\* and end passive, the last three are a passive streak: DontInspect.
C35_Witness ==
    /\ Detected
    /\ pure.history = <<ACT_SMUGGLE, ACT_SMUGGLE, ACT_LAY_LOW, ACT_SIGNAL_TRUCE,
                        ACT_LAY_LOW>>
    /\ Alternating /\ PassiveStreak
    /\ pure.result = ACT_DONT_INSPECT

\* C36: the payoff WebGameSession.play_round computes inline equals
\* InspectionGame.calculate_payoff for every smuggler action, every
\* inspector action and every amount in 1..5, whether or not a bribe was
\* accepted.
C36_WebPayoffAgrees ==
    pure.op = "payoff" /\ pure.done =>
        /\ pure.player_action \in SmugglerActions
        /\ pure.inspector_action \in InspectorActions
        /\ pure.amount \in 1..5
        /\ pure.web_payoff = pure.payoff

\* A truce signalled with five units posted, the inspector looking away:
\* both pay +1, the amount not counted.
C36_Witness ==
    /\ pure.op = "payoff" /\ pure.done
    /\ pure.player_action = ACT_SIGNAL_TRUCE
    /\ pure.inspector_action = ACT_DONT_INSPECT
    /\ pure.amount = 5
    /\ pure.web_payoff = 1 /\ pure.payoff = 1

\* C37: after every round the inspector's counters agree with the history:
\* history_bribes_accepted is at most history_bribes_offered, which is the
\* number of Bribe actions in history_smuggler; history_truces_signaled is
\* the number of SignalTruce actions; history_traps_sprung is the number of
\* rounds recorded with was_trap true.
C37_CountersAgree ==
    game.kind # "none" =>
        LET s == game.inspector
            h == s.history_smuggler
        IN  /\ s.history_bribes_accepted <= s.history_bribes_offered
            /\ s.history_bribes_offered =
                  Cardinality({i \in DOMAIN h : h[i] = ACT_BRIBE})
            /\ s.history_truces_signaled =
                  Cardinality({i \in DOMAIN h : h[i] = ACT_SIGNAL_TRUCE})
            /\ s.history_traps_sprung =
                  Cardinality({i \in Rounds : obs[i].was_trap})
            /\ s.history_bribes_accepted =
                  Cardinality({i \in Rounds : obs[i].bribe_accepted})

\* A finished game with bribes offered, some of them refused, and a trap
\* sprung.
C37_Witness ==
    /\ game.kind # "none"
    /\ game.round_num = ROUNDS_PER_GAME
    /\ game.inspector.history_bribes_offered > 1
    /\ game.inspector.history_bribes_accepted < game.inspector.history_bribes_offered
    /\ game.inspector.history_traps_sprung > 0

\* C38: the move handler brings every posted amount, zero, negative or
\* large, into 1..5 before the round is played, so every round of a web
\* game pays between -25 and +50 and the score after n rounds lies between
\* -25 n and +50 n.
C38_AmountClamped ==
    game.kind = "web" =>
        /\ \A a \in RawAmounts : clamp_amount(a) \in 1..5
        /\ \A i \in Rounds :
              LET o == obs[i]
              IN  /\ o.amount >= 1 /\ o.amount <= 5
                  /\ o.payoff >= -25 /\ o.payoff <= 50
        /\ game.round_num = Len(obs)
        /\ game.score >= -25 * game.round_num
        /\ game.score <= 50 * game.round_num

\* A web game of a smuggler who posts 3 each round, with one round posted
\* at zero or below and played as 1.
C38_Witness ==
    /\ game.kind = "web" /\ script.action = ACT_SMUGGLE
    /\ \E i \in Rounds :
          /\ obs[i].player_action = ACT_SMUGGLE
          /\ obs[i].amount = 1
          /\ obs[i].payoff \in {-5, 10}

====
